---- MODULE Spec2Model ----
(***************************************************************************)
(* PNG chunk inspector (dassey/png).  The repository holds four copies of  *)
(* the chunk-stream parser readPngChunks:                                  *)
(*   "v1"     src/png.js 14..690      lenient, table renderer             *)
(*   "v2"     src/png.js 693..1310    lenient, metadata dashboard         *)
(*   "v3"     src/png.js 1315..1743   lenient, chunk boxes                *)
(*   "strict" src/unnamed/part_000    throws on the first problem         *)
(* The model runs any of them over a byte buffer, one loop iteration per   *)
(* step, with the JavaScript arithmetic of the source.                     *)
(***************************************************************************)
EXTENDS Integers, Sequences, FiniteSets, TLC

(***************************************************************************)
(* JavaScript numbers.  The integers the parser handles (values of 32-bit  *)
(* fields, buffer indices, their sums) are exact in a double but do not    *)
(* fit a TLC integer, so a number n is the pair <<hi, lo>> with            *)
(* n = hi * 65536 + lo and 0 <= lo < 65536; hi is negative for n < 0.      *)
(***************************************************************************)
W16 == 65536

N(i) == <<i \div W16, i % W16>>

Add(a, b) == LET s == a[2] + b[2] IN <<a[1] + b[1] + (s \div W16), s % W16>>

\* a - b
Sub(a, b) == LET d == a[2] - b[2] IN <<a[1] - b[1] + (d \div W16), d % W16>>

Lt(a, b) == a[1] < b[1] \/ (a[1] = b[1] /\ a[2] < b[2])

Le(a, b) == ~Lt(b, a)

\* the TLC integer of a number known to be small
ToInt(a) == a[1] * W16 + a[2]

\* ECMAScript ToInt32 and ToUint32
ToInt32(a) == <<((a[1] + 32768) % W16) - 32768, a[2]>>

ToUint32(a) == <<a[1] % W16, a[2]>>

\* exclusive or of two 4-bit values: row a + 1, column b + 1
XorNibble ==
    <<
       << 0,  1,  2,  3,  4,  5,  6,  7,  8,  9, 10, 11, 12, 13, 14, 15>>,
       << 1,  0,  3,  2,  5,  4,  7,  6,  9,  8, 11, 10, 13, 12, 15, 14>>,
       << 2,  3,  0,  1,  6,  7,  4,  5, 10, 11,  8,  9, 14, 15, 12, 13>>,
       << 3,  2,  1,  0,  7,  6,  5,  4, 11, 10,  9,  8, 15, 14, 13, 12>>,
       << 4,  5,  6,  7,  0,  1,  2,  3, 12, 13, 14, 15,  8,  9, 10, 11>>,
       << 5,  4,  7,  6,  1,  0,  3,  2, 13, 12, 15, 14,  9,  8, 11, 10>>,
       << 6,  7,  4,  5,  2,  3,  0,  1, 14, 15, 12, 13, 10, 11,  8,  9>>,
       << 7,  6,  5,  4,  3,  2,  1,  0, 15, 14, 13, 12, 11, 10,  9,  8>>,
       << 8,  9, 10, 11, 12, 13, 14, 15,  0,  1,  2,  3,  4,  5,  6,  7>>,
       << 9,  8, 11, 10, 13, 12, 15, 14,  1,  0,  3,  2,  5,  4,  7,  6>>,
       <<10, 11,  8,  9, 14, 15, 12, 13,  2,  3,  0,  1,  6,  7,  4,  5>>,
       <<11, 10,  9,  8, 15, 14, 13, 12,  3,  2,  1,  0,  7,  6,  5,  4>>,
       <<12, 13, 14, 15,  8,  9, 10, 11,  4,  5,  6,  7,  0,  1,  2,  3>>,
       <<13, 12, 15, 14,  9,  8, 11, 10,  5,  4,  7,  6,  1,  0,  3,  2>>,
       <<14, 15, 12, 13, 10, 11,  8,  9,  6,  7,  4,  5,  2,  3,  0,  1>>,
       <<15, 14, 13, 12, 11, 10,  9,  8,  7,  6,  5,  4,  3,  2,  1,  0>>
    >>

Xor8(x, y) ==
    XorNibble[(x \div 16) + 1][(y \div 16) + 1] * 16 + XorNibble[(x % 16) + 1][(y % 16) + 1]

Xor16(x, y) == Xor8(x \div 256, y \div 256) * 256 + Xor8(x % 256, y % 256)

\* the bit pattern of a ^ b, as an unsigned value
XorBits(a, b) ==
    LET ua == ToUint32(a)
        ub == ToUint32(b)
    IN  <<Xor16(ua[1], ub[1]), Xor16(ua[2], ub[2])>>

\* JavaScript a ^ b: both operands to 32 bits, the result a signed 32-bit value
BitXor(a, b) == ToInt32(XorBits(a, b))

\* JavaScript a >>> k (k < 16): the result is unsigned
Ushr(a, k) ==
    LET u == ToUint32(a)
        p == 2 ^ k
    IN  <<u[1] \div p, (u[1] % p) * (W16 \div p) + (u[2] \div p)>>

\* JavaScript a & mask for a mask 2^k - 1 with k <= 16, as a TLC integer
BitAndLow(a, k) == a[2] % (2 ^ k)

\* 0xFFFFFFFF and 0xEDB88320 as written in the source (positive literals)
AllOnes == <<65535, 65535>>

CrcPoly == <<60856, 33568>>

(***************************************************************************)
(* Checksum engine: updateCrc's table.  The source stores the entries in   *)
(* an Int32Array, so each entry is a signed 32-bit value.                  *)
(***************************************************************************)
RECURSIVE crcTableEntry(_, _)
crcTableEntry(c, j) ==
    IF j = 0 THEN ToInt32(c)
    ELSE IF BitAndLow(c, 1) = 0 THEN crcTableEntry(Ushr(c, 1), j - 1)
         ELSE crcTableEntry(BitXor(Ushr(c, 1), CrcPoly), j - 1)

\* the entries lo..hi in order (split in halves to keep the evaluation shallow)
RECURSIVE crcTableRows(_, _)
crcTableRows(lo, hi) ==
    IF lo = hi THEN <<crcTableEntry(N(lo), 8)>>
    ELSE LET mid == (lo + hi) \div 2
         IN  crcTableRows(lo, mid) \o crcTableRows(mid + 1, hi)

\* the table as built on first use: entry i is at position i + 1
BuiltCrcTable == crcTableRows(0, 255)

(***************************************************************************)
(* Byte buffers.  A Uint8Array is held as an explicit head, a run of       *)
(* `zeros` zero bytes and an explicit tail, so that a buffer of more than  *)
(* 2^31 bytes can be written down; an ordinary buffer has zeros = N(0) and *)
(* an empty tail.  Indices and lengths are numbers.                        *)
(***************************************************************************)
Buf(head, zeros, tail) == [head |-> head, zeros |-> zeros, tail |-> tail]

PlainBuf(s) == Buf(s, N(0), <<>>)

\* bytes.length
BufLen(b) == Add(Add(N(Len(b.head)), b.zeros), N(Len(b.tail)))

ZerosEnd(b) == Add(N(Len(b.head)), b.zeros)

\* bytes[i]; past the end JavaScript yields undefined, which every use in the
\* source (a bitwise operator, String.fromCharCode) turns into 0
ByteAt(b, i) ==
    IF Lt(i, N(Len(b.head))) THEN b.head[ToInt(i) + 1]
    ELSE IF Lt(i, ZerosEnd(b)) THEN 0
    ELSE IF Lt(i, BufLen(b)) THEN b.tail[ToInt(Sub(i, ZerosEnd(b))) + 1]
    ELSE 0

\* bytes.subarray(from, to): a view, nothing is copied
Subarray(from, to) == [from |-> from, to |-> to]

(***************************************************************************)
(* updateCrc's loop body, crc = crcTable[(crc ^ b) & 0xFF] ^ (crc >>> 8)   *)
(***************************************************************************)
crcStep(table, crc, b) ==
    BitXor(table[BitAndLow(BitXor(crc, N(b)), 8) + 1], Ushr(crc, 8))

(***************************************************************************)
(* A run of n zero bytes.  On the register's bit pattern one loop pass     *)
(* with b = 0 is linear over GF(2), so n passes are a product of the maps  *)
(* T^(2^j) for the one bits j of n.  A map is the tuple of the images of   *)
(* the 32 unit patterns.  ZeroRunAgrees compares this with the plain loop. *)
(***************************************************************************)
WordBits == 32

UnitBit(k) == IF k < 16 THEN <<0, 2 ^ k>> ELSE <<2 ^ (k - 16), 0>>

BitIsSet(w, k) ==
    IF k < 16 THEN ((w[2] \div (2 ^ k)) % 2) = 1
    ELSE ((w[1] \div (2 ^ (k - 16))) % 2) = 1

\* exclusive or of the images M[k + 1] of the one bits k of w, for k in lo..hi
RECURSIVE ApplyMapRange(_, _, _, _)
ApplyMapRange(M, w, lo, hi) ==
    IF lo = hi THEN (IF BitIsSet(w, lo) THEN M[lo + 1] ELSE N(0))
    ELSE LET mid == (lo + hi) \div 2
         IN  XorBits(ApplyMapRange(M, w, lo, mid), ApplyMapRange(M, w, mid + 1, hi))

ApplyMap(M, w) == ApplyMapRange(M, ToUint32(w), 0, WordBits - 1)

\* the map M applied twice
SquareMap(M) == [k \in 1..WordBits |-> ApplyMap(M, M[k])]

\* <<M, M^2, M^4, ...>>, j maps
RECURSIVE PowerMapsFrom(_, _)
PowerMapsFrom(acc, j) ==
    IF Len(acc) = j THEN acc
    ELSE LET nx == SquareMap(acc[Len(acc)])
         IN  IF nx = nx THEN PowerMapsFrom(Append(acc, nx), j) ELSE acc

PowerMaps(M, j) == PowerMapsFrom(<<M>>, j)

RECURSIVE ApplyPowers(_, _, _, _)
ApplyPowers(maps, w, n, j) ==
    IF j = WordBits THEN w
    ELSE LET v == IF BitIsSet(n, j) THEN ApplyMap(maps[j + 1], w) ELSE w
         IN  IF v = v THEN ApplyPowers(maps, v, n, j + 1) ELSE v

\* one pass of the loop over a zero byte, as a map
ZeroStepMap == [k \in 1..WordBits |-> ToUint32(crcStep(BuiltCrcTable, UnitBit(k - 1), 0))]

ZeroRunMaps == PowerMaps(ZeroStepMap, WordBits)

\* the register after n more passes of the loop over zero bytes
crcZeroRun(crc, n) == ToInt32(ApplyPowers(ZeroRunMaps, ToUint32(crc), n, 0))

(***************************************************************************)
(* updateCrc(crc, bytes) over the bytes [i, to) of the buffer, with the    *)
(* table already built.  (IF c = c only makes TLC evaluate c before the    *)
(* next pass instead of stacking the passes up.)                           *)
(***************************************************************************)
MinNum(a, b) == IF Lt(a, b) THEN a ELSE b

\* n \div 2
Half(n) == <<n[1] \div 2, (n[2] + (n[1] % 2) * W16) \div 2>>

\* the loop over the bytes i .. to - 1 in order; the range is evaluated in two
\* halves, one after the other, to keep the evaluation shallow
RECURSIVE updateCrcView(_, _, _, _, _)
updateCrcView(table, crc, b, i, to) ==
    IF ~Lt(i, to) THEN crc
    ELSE IF Le(N(Len(b.head)), i) /\ Lt(i, ZerosEnd(b))
         THEN LET stop == MinNum(to, ZerosEnd(b))
                  c == crcZeroRun(crc, Sub(stop, i))
              IN  IF c = c THEN updateCrcView(table, c, b, stop, to) ELSE c
         ELSE IF Sub(to, i) = N(1) THEN crcStep(table, crc, ByteAt(b, i))
         ELSE LET mid == Add(i, Half(Sub(to, i)))
                  c == updateCrcView(table, crc, b, i, mid)
              IN  IF c = c THEN updateCrcView(table, c, b, mid, to) ELSE c

RECURSIVE updateCrcSeq(_, _, _)
updateCrcSeq(table, crc, s) ==
    IF s = <<>> THEN crc
    ELSE LET c == crcStep(table, crc, Head(s))
         IN  IF c = c THEN updateCrcSeq(table, c, Tail(s)) ELSE c

\* computeCrc(typeBytes, dataBytes): 0xFFFFFFFF, the two updates, crc ^ 0xFFFFFFFF
computeCrc(table, typeBytes, b, data) ==
    BitXor(updateCrcView(table, updateCrcSeq(table, AllOnes, typeBytes), b, data.from, data.to),
           AllOnes)

(***************************************************************************)
(* The standard CRC-32 (reflected polynomial 0xEDB88320, seed 0xFFFFFFFF,  *)
(* final complement), bit by bit on unsigned values: the reference the     *)
(* claims compare the code with.                                           *)
(***************************************************************************)
StdShift1(c) == IF c[2] % 2 = 1 THEN XorBits(Ushr(c, 1), CrcPoly) ELSE Ushr(c, 1)

StdByte(crc, byte) ==
    StdShift1(StdShift1(StdShift1(StdShift1(
    StdShift1(StdShift1(StdShift1(StdShift1(XorBits(crc, N(byte))))))))))

StdZeroMap == [k \in 1..WordBits |-> StdByte(UnitBit(k - 1), 0)]

StdZeroMaps == PowerMaps(StdZeroMap, WordBits)

RECURSIVE StdSeq(_, _)
StdSeq(crc, s) ==
    IF s = <<>> THEN crc
    ELSE IF Len(s) = 1 THEN StdByte(crc, s[1])
    ELSE LET c == StdSeq(crc, SubSeq(s, 1, Len(s) \div 2))
         IN  IF c = c THEN StdSeq(c, SubSeq(s, Len(s) \div 2 + 1, Len(s))) ELSE c

RECURSIVE StdView(_, _, _, _)
StdView(crc, b, i, to) ==
    IF ~Lt(i, to) THEN crc
    ELSE IF Le(N(Len(b.head)), i) /\ Lt(i, ZerosEnd(b))
         THEN LET stop == MinNum(to, ZerosEnd(b))
                  c == ApplyPowers(StdZeroMaps, crc, Sub(stop, i), 0)
              IN  IF c = c THEN StdView(c, b, stop, to) ELSE c
         ELSE IF Sub(to, i) = N(1) THEN StdByte(crc, ByteAt(b, i))
         ELSE LET mid == Add(i, Half(Sub(to, i)))
                  c == StdView(crc, b, i, mid)
              IN  IF c = c THEN StdView(c, b, mid, to) ELSE c

\* CRC-32 of the type bytes followed by the bytes [from, to) of the buffer
StdCrc32(typeBytes, b, from, to) ==
    XorBits(StdView(StdSeq(AllOnes, typeBytes), b, from, to), AllOnes)

\* CRC-32 of a byte sequence
StdCrc32Seq(s) == XorBits(StdSeq(AllOnes, s), AllOnes)

(***************************************************************************)
(* Binary readers.  The readers of v1 and v3 check the bounds and throw;   *)
(* those of v2 and of the strict copy read bytes[offset] unchecked.  A     *)
(* string is the tuple of its character codes.                             *)
(***************************************************************************)
\* offset + size > bytes.length
readPastEnd(b, off, size) == Lt(BufLen(b), Add(off, N(size)))

\* ((b0 << 24) | (b1 << 16) | (b2 << 8) | b3) >>> 0
readUint32(b, off) ==
    ToUint32(ToInt32(<<ByteAt(b, off) * 256 + ByteAt(b, Add(off, N(1))),
                       ByteAt(b, Add(off, N(2))) * 256 + ByteAt(b, Add(off, N(3)))>>))

\* String.fromCharCode of each of the len bytes
readAscii(b, off, len) == [k \in 1..len |-> ByteAt(b, Add(off, N(k - 1)))]

(***************************************************************************)
(* The parser's constants                                                  *)
(***************************************************************************)
PNG_SIGNATURE == <<137, 80, 78, 71, 13, 10, 26, 10>>

IHDR == <<73, 72, 68, 82>>

IDAT == <<73, 68, 65, 84>>

IEND == <<73, 69, 78, 68>>

PLTE == <<80, 76, 84, 69>>

tRNS == <<116, 82, 78, 83>>

tEXt == <<116, 69, 88, 116>>

zTXt == <<122, 84, 88, 116>>

iTXt == <<105, 84, 88, 116>>

sBIT == <<115, 66, 73, 84>>

bKGD == <<98, 75, 71, 68>>

\* 0x80000000
LargeLength == <<32768, 0>>

Letters == (65..90) \cup (97..122)

\* /^[A-Za-z]{4}$/.test(type)
isFourLetters(type) == \A k \in 1..4 : type[k] \in Letters

\* the same test with no length ever too large
lengthNeverTooLarge(length) == FALSE

\* length >= 0x80000000
lengthTooLarge(length) == Le(LargeLength, length)

\* the crcTable of a page that has computed no checksum yet (null)
Null == <<>>

Variants == {"v1", "v2", "v3", "strict"}

Lenient == {"v1", "v2", "v3"}

VARIABLES
    variant,    \* which copy of the parser runs
    bytes,      \* readPngChunks' argument
    crcTable,   \* the module-level table cache
    pc,         \* "start", "scan", "after" (the loop was left), "done", "failed"
    index,      \* the cursor
    chunks,     \* the chunk records so far
    warnings,   \* the warnings so far; each carries the cursor it was pushed at
    foundIhdr,
    foundIdat,
    foundIend,
    result,     \* what readPngChunks returned or threw
    oob,        \* some read was made at an index >= bytes.length
    previous,   \* what the call before this one returned or threw, if there was one
    parseResult,            \* onload's parseResult object, as the handler has left it
    ihdrInfo,               \* onload's ihdrInfo
    chunkResultsContainer,  \* the boxes in the results container
    messageElem,            \* messageElem.textContent
    readers,                \* the files of the FileReaders that are still loading
    requests,               \* how many times analyzeFile has started a reader
    fileElem                \* fileElem.files[0], the file chosen on the page

vars == <<variant, bytes, crcTable, pc, index, chunks, warnings,
          foundIhdr, foundIdat, foundIend, result, oob, previous,
          parseResult, ihdrInfo, chunkResultsContainer, messageElem, readers, requests,
          fileElem>>

\* the call frame and the table, as one record
Frame ==
    [pc |-> pc, index |-> index, chunks |-> chunks, warnings |-> warnings,
     foundIhdr |-> foundIhdr, foundIdat |-> foundIdat, foundIend |-> foundIend,
     crcTable |-> crcTable, result |-> result, oob |-> oob,
     parseResult |-> parseResult, ihdrInfo |-> ihdrInfo,
     chunkResultsContainer |-> chunkResultsContainer, messageElem |-> messageElem]

Assign(t) ==
    /\ pc' = t.pc
    /\ index' = t.index
    /\ chunks' = t.chunks
    /\ warnings' = t.warnings
    /\ foundIhdr' = t.foundIhdr
    /\ foundIdat' = t.foundIdat
    /\ foundIend' = t.foundIend
    /\ crcTable' = t.crcTable
    /\ result' = t.result
    /\ oob' = t.oob
    /\ parseResult' = t.parseResult
    /\ ihdrInfo' = t.ihdrInfo
    /\ chunkResultsContainer' = t.chunkResultsContainer
    /\ messageElem' = t.messageElem

\* the step's outcome t is worked out once and then assigned
Commit(t) ==
    \E next \in {t} :
        Assign(next) /\ UNCHANGED <<variant, bytes, previous, readers, requests, fileElem>>

Warn(kind, at) == [kind |-> kind, at |-> at]

NoResult == [kind |-> "none"]

\* return { chunks, warnings }
Return(cs, ws) == [kind |-> "ok", chunks |-> cs, warnings |-> ws]

\* throw
Throw(message) == [kind |-> "error", message |-> message]

\* let ihdrInfo = null
NoInfo == [known |-> FALSE]

\* messageElem.textContent = ""
NoMessage == [kind |-> "empty", text |-> ""]

Fail(s, message) == [s EXCEPT !.pc = "failed", !.result = Throw(message)]

\* a skip that leaves no trace in the warnings
noBadTypeWarning(ws, at) == ws

\* warnings.push(`Offset ${index}: Chunk type "${type}" has invalid characters. ...`)
badTypeWarning(ws, at) == Append(ws, Warn("badType", at))

\* break out of the scan loop with one more warning
Break(s, ws, kind) ==
    [s EXCEPT !.pc = "after", !.warnings = Append(ws, Warn(kind, s.index))]

(***************************************************************************)
(* The signature check, the same in the four copies:                       *)
(* bytes.length < 8 || !bytes.subarray(0, 8).every((b, i) => ...)          *)
(***************************************************************************)
\* subarray(0, 8) is cut to the buffer: every() sees min(8, length) bytes
signatureEvery(b) ==
    \A k \in 0..7 : Lt(N(k), BufLen(b)) => ByteAt(b, N(k)) = PNG_SIGNATURE[k + 1]

\* the test without its length half
signatureMismatchOnly(b) == ~signatureEvery(b)

notAPng(b) == Lt(BufLen(b), N(8)) \/ ~signatureEvery(b)

checkSignature(s, b, message) ==
    IF notAPng(b) THEN Fail(s, message)
    ELSE [s EXCEPT !.pc = "scan", !.index = N(8), !.chunks = <<>>, !.warnings = <<>>,
                   !.foundIhdr = FALSE, !.foundIdat = FALSE, !.foundIend = FALSE]

(***************************************************************************)
(* One pass of the scan loop.  i is the cursor on entry.                   *)
(***************************************************************************)
\* index + 8 > bytes.length
headerTruncated(b, i) == Lt(BufLen(b), Add(i, N(8)))

\* index + 8 + length + 4
\* a chunk end that leaves out the four bytes of the checksum
chunkEndWithoutCrc(i, length) == Add(Add(i, N(8)), length)

chunkEnd(i, length) == Add(Add(Add(i, N(8)), length), N(4))

\* a parser that takes every chunk to fit
neverTruncated(b, i, length) == FALSE

\* chunkEndIndex > bytes.length
dataTruncated(b, i, length) == Lt(BufLen(b), chunkEnd(i, length))

\* bytes.subarray(index + 8, index + 8 + length); subarray cuts both ends to
\* the buffer
chunkData(b, i, length) ==
    Subarray(MinNum(Add(i, N(8)), BufLen(b)), MinNum(Add(Add(i, N(8)), length), BufLen(b)))

\* index + 8 + length, where the stored checksum is read
crcOffset(i, length) == Add(Add(i, N(8)), length)

\* a cache that is wiped when it is used again
tableDecaying(table) == IF table = Null THEN BuiltCrcTable ELSE [n \in DOMAIN table |-> N(0)]

\* the table after updateCrc's "if (crcTable === null)" block
tableAfterUse(table) == IF table = Null THEN BuiltCrcTable ELSE table

\* a comparison that always succeeds
crcAlwaysMatches(table, b, i, length, type) == TRUE

\* actualCrc === expectedCrc
crcMatches(table, b, i, length, type) ==
    readUint32(b, crcOffset(i, length)) = computeCrc(table, type, b, chunkData(b, i, length))

\* a record that claims its checksum matched whatever was stored
chunkRecordAlwaysValid(table, b, i, length, type) ==
    [type |-> type, length |-> length, data |-> chunkData(b, i, length), offset |-> i,
     crc |-> readUint32(b, crcOffset(i, length)),
     crcOk |-> TRUE]

\* a record whose offset is that of its payload, not of its length field
chunkRecordAtData(table, b, i, length, type) ==
    [type |-> type, length |-> length, data |-> chunkData(b, i, length),
     offset |-> Add(i, N(8)),
     crc |-> readUint32(b, crcOffset(i, length)),
     crcOk |-> crcMatches(table, b, i, length, type)]

\* the record pushed by the lenient copies
chunkRecord(table, b, i, length, type) ==
    [type |-> type, length |-> length, data |-> chunkData(b, i, length), offset |-> i,
     crc |-> readUint32(b, crcOffset(i, length)),
     crcOk |-> crcMatches(table, b, i, length, type)]

\* a copy that never warns of data after an IEND chunk
dataAfterIendNever(ws, b, i, length) == ws

\* a copy that warns of data after every IEND chunk, wherever it ends
dataAfterIendAlways(ws, b, i, length) == Append(ws, Warn("dataAfterIend", i))

\* if (chunkEndIndex < bytes.length) warnings.push("Data found after IEND chunk ...")
dataAfterIend(ws, b, i, length) ==
    IF Lt(chunkEnd(i, length), BufLen(b)) THEN Append(ws, Warn("dataAfterIend", i)) ELSE ws

\* v1 and v3 from the CRC check to the end of the pass (the two copies agree)
keepChunk(s, b, ws, length, type) ==
    LET i == s.index
        table == tableAfterUse(s.crcTable)
        chunk == chunkRecord(table, b, i, length, type)
        w2 == IF ~chunk.crcOk THEN Append(ws, Warn("crcMismatch", i)) ELSE ws
        cs == Append(s.chunks, chunk)
        w3 == IF type = IHDR /\ Len(cs) > 1 THEN Append(w2, Warn("ihdrNotFirst", i)) ELSE w2
        w4 == IF type = IEND THEN dataAfterIend(w3, b, i, length) ELSE w3
    IN  [s EXCEPT !.crcTable = table, !.chunks = cs, !.warnings = w4,
                  !.oob = @ \/ readPastEnd(b, crcOffset(i, length), 4),
                  !.foundIhdr = @ \/ type = IHDR,
                  !.foundIdat = @ \/ type = IDAT,
                  !.foundIend = @ \/ type = IEND,
                  !.index = chunkEnd(i, length)]

\* the unchecked reads of the chunk header: length at i, type at i + 4
headerReadsPastEnd(b, i) == readPastEnd(b, i, 4) \/ readPastEnd(b, Add(i, N(4)), 4)

scanV1(s, b) ==
    LET i == s.index
    IN  IF headerTruncated(b, i) THEN Break(s, s.warnings, "headerTruncated")
        ELSE IF headerReadsPastEnd(b, i) THEN Fail(s, "Read past end of buffer")
        ELSE
        LET length == readUint32(b, i)
            w1 == IF lengthTooLarge(length)
                  THEN Append(s.warnings, Warn("largeLength", i)) ELSE s.warnings
            type == readAscii(b, Add(i, N(4)), 4)
        IN  IF ~isFourLetters(type)
            THEN IF Le(chunkEnd(i, length), BufLen(b))
                 THEN [s EXCEPT !.warnings = badTypeWarning(w1, i),
                                !.index = chunkEnd(i, length)]
                 ELSE Break(s, badTypeWarning(w1, i), "cannotSkip")
            ELSE IF dataTruncated(b, i, length) THEN Break(s, w1, "dataTruncated")
            ELSE IF readPastEnd(b, crcOffset(i, length), 4)
                 THEN Fail(s, "Read past end of buffer")
            ELSE keepChunk(s, b, w1, length, type)

scanV3(s, b) ==
    LET i == s.index
    IN  IF headerTruncated(b, i) THEN Break(s, s.warnings, "headerTruncated")
        ELSE IF headerReadsPastEnd(b, i) THEN Fail(s, "Read past end")
        ELSE
        LET length == readUint32(b, i)
            type == readAscii(b, Add(i, N(4)), 4)
            w1 == IF lengthTooLarge(length)
                  THEN Append(s.warnings, Warn("largeLength", i)) ELSE s.warnings
            skipToIndex == chunkEnd(i, length)
        IN  IF ~isFourLetters(type)
            THEN IF Le(skipToIndex, BufLen(b)) /\ Lt(i, skipToIndex)
                 THEN [s EXCEPT !.warnings = badTypeWarning(w1, i),
                                !.index = skipToIndex]
                 ELSE Break(s, badTypeWarning(w1, i), "cannotSkip")
            ELSE IF dataTruncated(b, i, length) THEN Break(s, w1, "dataTruncated")
            ELSE IF readPastEnd(b, crcOffset(i, length), 4) THEN Fail(s, "Read past end")
            ELSE keepChunk(s, b, w1, length, type)

scanV2(s, b) ==
    LET i == s.index
    IN  IF headerTruncated(b, i) THEN Break(s, s.warnings, "headerTruncated")
        ELSE
        LET length == readUint32(b, i)
            type == readAscii(b, Add(i, N(4)), 4)
            r == [s EXCEPT !.oob = @ \/ headerReadsPastEnd(b, i)]
        IN  IF lengthTooLarge(length) THEN Break(r, s.warnings, "largeLength")
            ELSE IF dataTruncated(b, i, length) THEN Break(r, s.warnings, "dataTruncated")
            ELSE
            LET table == tableAfterUse(s.crcTable)
                chunk == chunkRecord(table, b, i, length, type)
            IN  [r EXCEPT !.crcTable = table,
                          !.oob = @ \/ readPastEnd(b, crcOffset(i, length), 4),
                          !.warnings = IF ~chunk.crcOk /\ type # IDAT
                                       THEN Append(@, Warn("crcMismatch", i)) ELSE @,
                          !.chunks = Append(@, chunk),
                          !.index = chunkEnd(i, length)]

scanStrict(s, b) ==
    LET i == s.index
    IN  IF headerTruncated(b, i) THEN Fail(s, "Unexpected end of file (chunk header)")
        ELSE
        LET length == readUint32(b, i)
            type == readAscii(b, Add(i, N(4)), 4)
            r == [s EXCEPT !.oob = @ \/ headerReadsPastEnd(b, i)]
        IN  IF lengthTooLarge(length) THEN Fail(r, "Chunk length too large")
            ELSE IF ~isFourLetters(type) THEN Fail(r, "Chunk type has invalid characters")
            ELSE IF dataTruncated(b, i, length) THEN Fail(r, "Unexpected end of file (chunk data)")
            ELSE
            LET table == tableAfterUse(s.crcTable)
                q == [r EXCEPT !.crcTable = table,
                               !.oob = @ \/ readPastEnd(b, crcOffset(i, length), 4)]
            IN  IF ~crcMatches(table, b, i, length, type)
                THEN Fail(q, "Chunk CRC mismatch")
                ELSE [q EXCEPT !.chunks = Append(@, [type |-> type, length |-> length,
                                                     data |-> chunkData(b, i, length),
                                                     offset |-> i]),
                               !.index = chunkEnd(i, length)]

(***************************************************************************)
(* After the loop                                                          *)
(***************************************************************************)
\* a copy that warns of a missing IEND wherever the scan ended
finishV1AnywhereIend(s, b) ==
    IF ~s.foundIhdr THEN Fail(s, "Missing IHDR chunk")
    ELSE LET w1 == IF ~s.foundIdat
                   THEN Append(s.warnings, Warn("missingIdat", s.index)) ELSE s.warnings
             w2 == IF ~s.foundIend THEN Append(w1, Warn("missingIend", s.index)) ELSE w1
         IN  [s EXCEPT !.pc = "done", !.warnings = w2, !.result = Return(s.chunks, w2)]

finishV1(s, b) ==
    IF ~s.foundIhdr THEN Fail(s, "Missing IHDR chunk")
    ELSE LET w1 == IF ~s.foundIdat
                   THEN Append(s.warnings, Warn("missingIdat", s.index)) ELSE s.warnings
             w2 == IF ~s.foundIend /\ Le(BufLen(b), s.index)
                   THEN Append(w1, Warn("missingIend", s.index)) ELSE w1
         IN  [s EXCEPT !.pc = "done", !.warnings = w2, !.result = Return(s.chunks, w2)]

\* a copy that returns whether or not it saw IHDR
finishV3Unchecked(s, b) == [s EXCEPT !.pc = "done", !.result = Return(s.chunks, s.warnings)]

finishV3(s, b) ==
    IF ~s.foundIhdr THEN Fail(s, "Critical Error: Missing IHDR chunk.")
    ELSE LET w1 == IF ~s.foundIdat
                   THEN Append(s.warnings, Warn("missingIdat", s.index)) ELSE s.warnings
             w2 == IF ~s.foundIend /\ Le(BufLen(b), s.index)
                   THEN Append(w1, Warn("missingIend", s.index)) ELSE w1
         IN  [s EXCEPT !.pc = "done", !.warnings = w2, !.result = Return(s.chunks, w2)]

finishV2(s) == [s EXCEPT !.pc = "done", !.result = Return(s.chunks, s.warnings)]

\* a strict copy that returns whatever it scanned
finishStrictUnchecked(s) == [s EXCEPT !.pc = "done", !.result = Return(s.chunks, <<>>)]

\* the strict copy returns the chunk list alone: it has no warnings list
finishStrict(s) ==
    IF Len(s.chunks) = 0 \/ s.chunks[1].type # IHDR THEN Fail(s, "Missing IHDR chunk")
    ELSE IF s.chunks[Len(s.chunks)].type # IEND THEN Fail(s, "Missing IEND chunk")
    ELSE IF ~\E k \in 1..Len(s.chunks) : s.chunks[k].type = IDAT
    THEN Fail(s, "Missing IDAT chunk")
    ELSE [s EXCEPT !.pc = "done", !.result = Return(s.chunks, <<>>)]

(***************************************************************************)
(* What reader.onload does with the parse (copies v3 and v2).  Strings     *)
(* built from bytes are sequences of code points; fixed phrases are        *)
(* strings, their numbers listed beside them.                              *)
(***************************************************************************)
\* the bytes of a Uint8Array view, data[0] first
viewBytes(b, data) ==
    [k \in 1..ToInt(Sub(data.to, data.from)) |-> ByteAt(b, Add(data.from, N(k - 1)))]

\* data.indexOf(value, fromIndex): -1 when there is none
indexOf(d, value, fromIndex) ==
    LET hits == {k \in fromIndex..(Len(d) - 1) : d[k + 1] = value}
    IN  IF hits = {} THEN -1 ELSE CHOOSE k \in hits : \A other \in hits : k <= other

\* (bytes[offset] << 8) | bytes[offset + 1]
readUint16(d, offset) == d[offset + 1] * 256 + d[offset + 2]

\* v3: throws when offset + len > bytes.length, else one code point per byte
readLatin1(d, offset, len) ==
    IF offset + len > Len(d) THEN [thrown |-> TRUE, chars |-> <<>>]
    ELSE [thrown |-> FALSE, chars |-> [j \in 1..len |-> d[offset + j]]]

\* v2: no test; a byte past the end reads as undefined, code point 0
readLatin1V2(d, offset, len) ==
    [j \in 1..len |-> IF offset + j <= Len(d) THEN d[offset + j] ELSE 0]

\* TextDecoder("utf-8"): the decoder's state between two bytes. needed is the
\* number of continuation bytes still to come, lower..upper the range the next
\* one must be in; an ill-formed sequence gives U+FFFD and sets bad
Replacement == 65533

Utf8Start == [cp |-> 0, needed |-> 0, lower |-> 128, upper |-> 191, out |-> <<>>, bad |-> FALSE]

utf8Error(st) ==
    [cp |-> 0, needed |-> 0, lower |-> 128, upper |-> 191,
     out |-> Append(st.out, Replacement), bad |-> TRUE]

utf8Lead(st, byte) ==
    IF byte <= 127 THEN [st EXCEPT !.out = Append(st.out, byte)]
    ELSE IF byte \in 194..223 THEN [st EXCEPT !.needed = 1, !.cp = byte % 32]
    ELSE IF byte \in 224..239
    THEN [st EXCEPT !.needed = 2, !.cp = byte % 16,
                    !.lower = IF byte = 224 THEN 160 ELSE 128,
                    !.upper = IF byte = 237 THEN 159 ELSE 191]
    ELSE IF byte \in 240..244
    THEN [st EXCEPT !.needed = 3, !.cp = byte % 8,
                    !.lower = IF byte = 240 THEN 144 ELSE 128,
                    !.upper = IF byte = 244 THEN 143 ELSE 191]
    ELSE utf8Error(st)

\* a byte that cannot continue the sequence ends it with U+FFFD and is then
\* read again as the first byte of the next one
utf8Byte(st, byte) ==
    IF st.needed = 0 THEN utf8Lead(st, byte)
    ELSE IF byte \notin st.lower..st.upper THEN utf8Lead(utf8Error(st), byte)
    ELSE IF st.needed = 1
    THEN [cp |-> 0, needed |-> 0, lower |-> 128, upper |-> 191,
          out |-> Append(st.out, st.cp * 64 + (byte % 64)), bad |-> st.bad]
    ELSE [st EXCEPT !.cp = st.cp * 64 + (byte % 64), !.needed = st.needed - 1,
                    !.lower = 128, !.upper = 191]

RECURSIVE utf8Run(_, _)
utf8Run(st, s) ==
    IF s = <<>> THEN (IF st.needed # 0 THEN utf8Error(st) ELSE st)
    ELSE utf8Run(utf8Byte(st, Head(s)), Tail(s))

Bom == <<239, 187, 191>>

\* decode(): a byte order mark at the start is dropped
decodeUtf8(s) ==
    utf8Run(Utf8Start, IF Len(s) >= 3 /\ SubSeq(s, 1, 3) = Bom THEN SubSeq(s, 4, Len(s)) ELSE s)

\* v3: throws when offset + len > bytes.length and, the decoder being fatal,
\* when the bytes are not UTF-8
readUtf8(d, offset, len) ==
    IF offset + len > Len(d) THEN [thrown |-> TRUE, chars |-> <<>>]
    ELSE LET decoded == decodeUtf8(SubSeq(d, offset + 1, offset + len))
         IN  IF decoded.bad THEN [thrown |-> TRUE, chars |-> <<>>]
             ELSE [thrown |-> FALSE, chars |-> decoded.out]

\* v2: subarray clamps to the array and the decoder replaces what is ill-formed
readUtf8V2(d, offset, len) ==
    decodeUtf8(SubSeq(d, offset + 1, IF offset + len < Len(d) THEN offset + len ELSE Len(d))).out

\* unsafe.replace(/c/g, entity) for the one character c
RECURSIVE replaceAll(_, _, _)
replaceAll(str, c, entity) ==
    IF str = <<>> THEN <<>>
    ELSE (IF Head(str) = c THEN entity ELSE <<Head(str)>>) \o replaceAll(Tail(str), c, entity)

Amp == <<38, 97, 109, 112, 59>>             \* &amp;

LtEntity == <<38, 108, 116, 59>>            \* &lt;

GtEntity == <<38, 103, 116, 59>>            \* &gt;

Quot == <<38, 113, 117, 111, 116, 59>>      \* &quot;

Apos == <<38, 35, 48, 51, 57, 59>>          \* &#039;

\* the five replacements with & done last, so that it escapes the others' &
escapeHtmlAmpersandLast(str) ==
    replaceAll(replaceAll(replaceAll(replaceAll(replaceAll(str, 60, LtEntity),
                                                62, GtEntity), 34, Quot), 39, Apos),
               38, Amp)

\* the five replacements, in the order of the source
escapeHtml(str) ==
    replaceAll(replaceAll(replaceAll(replaceAll(replaceAll(str, 38, Amp),
                                                60, LtEntity), 62, GtEntity), 34, Quot),
               39, Apos)

\* what summarizeChunk returns or throws: the phrase, the numbers put into
\* it, and markup built from the file's bytes
Summary(thrown, error, text, numbers, html) ==
    [thrown |-> thrown, error |-> error, text |-> text, numbers |-> numbers, html |-> html]

Says(text, numbers, html) == Summary(FALSE, FALSE, text, numbers, html)

Throws(text) == Summary(TRUE, TRUE, text, <<>>, <<>>)

isValidBitDepthColorType(bitDepth, colorType) ==
    \/ colorType = 0 /\ bitDepth \in {1, 2, 4, 8, 16}
    \/ colorType = 2 /\ bitDepth \in {8, 16}
    \/ colorType = 3 /\ bitDepth \in {1, 2, 4, 8}
    \/ colorType = 4 /\ bitDepth \in {8, 16}
    \/ colorType = 6 /\ bitDepth \in {8, 16}

IhdrFields(d) ==
    [known |-> TRUE, width |-> readUint32(PlainBuf(d), N(0)),
     height |-> readUint32(PlainBuf(d), N(4)), bitDepth |-> d[9], colorType |-> d[10]]

\* v3
parseIhdrData(d) ==
    IF Len(d) # 13
    THEN [thrown |-> TRUE, text |-> "Invalid IHDR length for parsing", info |-> NoInfo]
    ELSE IF ~isValidBitDepthColorType(d[9], d[10])
    THEN [thrown |-> TRUE, text |-> "Invalid bit depth/color type combination in IHDR",
          info |-> NoInfo]
    ELSE [thrown |-> FALSE, text |-> "", info |-> IhdrFields(d)]

\* v2: the length is all it tests
parseIhdrDataV2(d) ==
    IF Len(d) # 13 THEN [thrown |-> TRUE, text |-> "Invalid IHDR length", info |-> NoInfo]
    ELSE [thrown |-> FALSE, text |-> "", info |-> IhdrFields(d)]

\* a tRNS case with no upper limit on the alpha entries of a palette
summarizeTrnsAnyPalette(c, d, info) ==
    IF ~info.known THEN Says("Transparency Data: (n bytes, requires IHDR context)",
                             <<c.length>>, <<>>)
    ELSE IF info.colorType = 0
    THEN IF c.length # N(2) THEN Throws("Invalid tRNS length for grayscale (must be 2)")
         ELSE Says("Transparency Data: Single Gray Level=g", <<N(readUint16(d, 0))>>, <<>>)
    ELSE IF info.colorType = 2
    THEN IF c.length # N(6) THEN Throws("Invalid tRNS length for truecolor (must be 6)")
         ELSE Says("Transparency Data: Single RGB Color: R=r, G=g, B=b",
                   <<N(readUint16(d, 0)), N(readUint16(d, 2)), N(readUint16(d, 4))>>, <<>>)
    ELSE IF info.colorType = 3
    THEN IF c.length = N(0)
         THEN Throws("Invalid tRNS length for indexed (must be 1-256)")
         ELSE Says("Transparency Data: n alpha entries for palette", <<c.length>>, <<>>)
    ELSE Throws("tRNS chunk is invalid for color types with an alpha channel (4 or 6)")

\* v3's tRNS case
summarizeTrns(c, d, info) ==
    IF ~info.known THEN Says("Transparency Data: (n bytes, requires IHDR context)",
                             <<c.length>>, <<>>)
    ELSE IF info.colorType = 0
    THEN IF c.length # N(2) THEN Throws("Invalid tRNS length for grayscale (must be 2)")
         ELSE Says("Transparency Data: Single Gray Level=g", <<N(readUint16(d, 0))>>, <<>>)
    ELSE IF info.colorType = 2
    THEN IF c.length # N(6) THEN Throws("Invalid tRNS length for truecolor (must be 6)")
         ELSE Says("Transparency Data: Single RGB Color: R=r, G=g, B=b",
                   <<N(readUint16(d, 0)), N(readUint16(d, 2)), N(readUint16(d, 4))>>, <<>>)
    ELSE IF info.colorType = 3
    THEN IF c.length = N(0) \/ Lt(N(256), c.length)
         THEN Throws("Invalid tRNS length for indexed (must be 1-256)")
         ELSE Says("Transparency Data: n alpha entries for palette", <<c.length>>, <<>>)
    ELSE Throws("tRNS chunk is invalid for color types with an alpha channel (4 or 6)")

\* the numbers data[0], ..., data[count - 1]
firstBytes(d, count) == [j \in 1..count |-> N(d[j])]

\* v3's sBIT case
summarizeSbit(c, d, info) ==
    IF ~info.known THEN Says("Significant Bits: (n bytes, requires IHDR context)",
                             <<c.length>>, <<>>)
    ELSE IF info.colorType = 0
    THEN IF c.length # N(1) THEN Throws("Invalid sBIT length for grayscale")
         ELSE Says("Significant Bits: Gray=g", firstBytes(d, 1), <<>>)
    ELSE IF info.colorType = 2
    THEN IF c.length # N(3) THEN Throws("Invalid sBIT length for truecolor")
         ELSE Says("Significant Bits: R=r, G=g, B=b", firstBytes(d, 3), <<>>)
    ELSE IF info.colorType = 3
    THEN IF c.length # N(3) THEN Throws("Invalid sBIT length for indexed")
         ELSE Says("Significant Bits: Source Palette: R=r, G=g, B=b", firstBytes(d, 3), <<>>)
    ELSE IF info.colorType = 4
    THEN IF c.length # N(2) THEN Throws("Invalid sBIT length for grayscale+alpha")
         ELSE Says("Significant Bits: Gray=g, Alpha=a", firstBytes(d, 2), <<>>)
    ELSE IF info.colorType = 6
    THEN IF c.length # N(4) THEN Throws("Invalid sBIT length for truecolor+alpha")
         ELSE Says("Significant Bits: R=r, G=g, B=b, A=a", firstBytes(d, 4), <<>>)
    ELSE Says("Significant Bits: (Invalid color type)", <<>>, <<>>)

\* v3's bKGD case
summarizeBkgd(c, d, info) ==
    IF ~info.known THEN Says("Background Color: (n bytes, requires IHDR context)",
                             <<c.length>>, <<>>)
    ELSE IF info.colorType \in {0, 4}
    THEN IF c.length # N(2) THEN Throws("Invalid bKGD length for grayscale")
         ELSE Says("Background Color: Gray Level=g", <<N(readUint16(d, 0))>>, <<>>)
    ELSE IF info.colorType \in {2, 6}
    THEN IF c.length # N(6) THEN Throws("Invalid bKGD length for truecolor")
         ELSE Says("Background Color: RGB Color: R=r, G=g, B=b",
                   <<N(readUint16(d, 0)), N(readUint16(d, 2)), N(readUint16(d, 4))>>, <<>>)
    ELSE IF info.colorType = 3
    THEN IF c.length # N(1) THEN Throws("Invalid bKGD length for indexed")
         ELSE Says("Background Color: Palette Index=i", firstBytes(d, 1), <<>>)
    ELSE Says("Background Color: (Invalid color type)", <<>>, <<>>)

\* v3's summarizeChunk, for the chunk types of the input files (the other
\* named types of its switch do not occur in them)
\* a copy whose keyword may be of any length
summarizeTextAnyKeyword(c, d) ==
    LET nul == indexOf(d, 0, 0)
    IN  IF nul = -1 \/ nul = 0 THEN Throws("Invalid tEXt keyword")
        ELSE Says("Textual Data: Key=", <<>>,
                  <<34>> \o escapeHtml(readLatin1(d, 0, nul).chars) \o <<34>>)

summarizeText(c, d) ==
    LET nul == indexOf(d, 0, 0)
    IN  IF nul = -1 \/ nul > 79 \/ nul = 0 THEN Throws("Invalid tEXt keyword")
        ELSE Says("Textual Data: Key=", <<>>,
                  <<34>> \o escapeHtml(readLatin1(d, 0, nul).chars) \o <<34>>)

summarizeZtxt(c, d) ==
    LET nul == indexOf(d, 0, 0)
    IN  IF nul = -1 \/ nul > 79 \/ nul = 0 THEN Throws("Invalid zTXt keyword")
        ELSE IF nul + 2 > ToInt(c.length) THEN Throws("Invalid zTXt data (missing comp method)")
        ELSE IF d[nul + 2] # 0 THEN Throws("Invalid zTXt compression method")
        ELSE Says("Compressed Text: Key=, Method=m", <<N(d[nul + 2])>>,
                  <<34>> \o escapeHtml(readLatin1(d, 0, nul).chars) \o <<34>>)

\* a copy that takes any compression method with the flag 1
summarizeItxtAnyMethod(c, d) ==
    LET nul0 == indexOf(d, 0, 0)
    IN  IF nul0 = -1 \/ nul0 > 79 \/ nul0 = 0 THEN Throws("Invalid iTXt keyword")
        ELSE IF nul0 + 3 > ToInt(c.length) THEN Throws("Invalid iTXt data (too short)")
        ELSE LET compFlag == d[nul0 + 2]
                 nul1 == indexOf(d, 0, nul0 + 3)
                 nul2 == indexOf(d, 0, nul1 + 1)
             IN  IF compFlag # 0 /\ compFlag # 1 THEN Throws("Invalid iTXt compression flag")
                 ELSE IF nul1 = -1 THEN Throws("Invalid iTXt data (missing lang tag terminator)")
                 ELSE IF nul2 = -1 THEN Throws("Invalid iTXt data (missing trans key terminator)")
                 ELSE LET translatedKeyword == readUtf8(d, nul1 + 1, nul2 - (nul1 + 1))
                      IN  IF translatedKeyword.thrown THEN Throws("Invalid UTF-8")
                          ELSE Says("Intl Text: Key=, Comp Flag=f, Lang=, Trans Key=",
                                    <<N(compFlag)>>,
                                    <<34>> \o escapeHtml(readLatin1(d, 0, nul0).chars) \o <<34, 34>>
                                        \o escapeHtml(readLatin1(d, nul0 + 3, nul1 - (nul0 + 3)).chars)
                                        \o <<34, 34>> \o escapeHtml(translatedKeyword.chars) \o <<34>>)

summarizeItxt(c, d) ==
    LET nul0 == indexOf(d, 0, 0)
    IN  IF nul0 = -1 \/ nul0 > 79 \/ nul0 = 0 THEN Throws("Invalid iTXt keyword")
        ELSE IF nul0 + 3 > ToInt(c.length) THEN Throws("Invalid iTXt data (too short)")
        ELSE LET compFlag == d[nul0 + 2]
                 compMethod == d[nul0 + 3]
                 nul1 == indexOf(d, 0, nul0 + 3)
                 nul2 == indexOf(d, 0, nul1 + 1)
             IN  IF compFlag # 0 /\ compFlag # 1 THEN Throws("Invalid iTXt compression flag")
                 ELSE IF compFlag = 1 /\ compMethod # 0
                 THEN Throws("Invalid iTXt compression method")
                 ELSE IF nul1 = -1 THEN Throws("Invalid iTXt data (missing lang tag terminator)")
                 ELSE IF nul2 = -1 THEN Throws("Invalid iTXt data (missing trans key terminator)")
                 ELSE LET translatedKeyword == readUtf8(d, nul1 + 1, nul2 - (nul1 + 1))
                      IN  IF translatedKeyword.thrown THEN Throws("Invalid UTF-8")
                          ELSE Says("Intl Text: Key=, Comp Flag=f, Lang=, Trans Key=",
                                    <<N(compFlag)>>,
                                    <<34>> \o escapeHtml(readLatin1(d, 0, nul0).chars) \o <<34, 34>>
                                        \o escapeHtml(readLatin1(d, nul0 + 3, nul1 - (nul0 + 3)).chars)
                                        \o <<34, 34>> \o escapeHtml(translatedKeyword.chars) \o <<34>>)

\* the offsets of the payload that summarizeChunk reads for an iTXt chunk,
\* other than by indexOf
itxtReads(c, d) ==
    LET nul0 == indexOf(d, 0, 0)
        nul1 == indexOf(d, 0, nul0 + 3)
        nul2 == indexOf(d, 0, nul1 + 1)
    IN  IF nul0 = -1 \/ nul0 > 79 \/ nul0 = 0 THEN {}
        ELSE (0..(nul0 - 1)) \cup
             (IF nul0 + 3 > ToInt(c.length) THEN {}
              ELSE {nul0 + 1, nul0 + 2} \cup
                   (IF d[nul0 + 2] \notin {0, 1} \/ (d[nul0 + 2] = 1 /\ d[nul0 + 3] # 0)
                       \/ nul1 = -1
                    THEN {}
                    ELSE ((nul0 + 3)..(nul1 - 1)) \cup
                         (IF nul2 = -1 THEN {} ELSE (nul1 + 1)..(nul2 - 1))))

summarizeChunk(c, d, info) ==
    IF c.type = IHDR
    THEN LET parsedIhdr == parseIhdrData(d)
         IN  IF parsedIhdr.thrown THEN Throws(parsedIhdr.text)
             ELSE Says("Dimensions: w x h, Bit Depth: b, Color Type: c, Compression: m, Filter: f, Interlace: i",
                       <<parsedIhdr.info.width, parsedIhdr.info.height,
                         N(parsedIhdr.info.bitDepth), N(parsedIhdr.info.colorType),
                         N(d[11]), N(d[12]), N(d[13])>>, <<>>)
    ELSE IF c.type = PLTE
    THEN IF ToInt(c.length) % 3 # 0 \/ Lt(N(768), c.length) \/ c.length = N(0)
         THEN Throws("Invalid PLTE length")
         ELSE Says("Palette entries: n", <<N(ToInt(c.length) \div 3)>>, <<>>)
    ELSE IF c.type = IDAT THEN Says("Image data stream chunk", <<>>, <<>>)
    ELSE IF c.type = IEND
    THEN IF c.length # N(0) THEN Throws("Invalid IEND length (must be 0)")
         ELSE Says("End of image stream marker", <<>>, <<>>)
    ELSE IF c.type = tRNS THEN summarizeTrns(c, d, info)
    ELSE IF c.type = sBIT THEN summarizeSbit(c, d, info)
    ELSE IF c.type = bKGD THEN summarizeBkgd(c, d, info)
    ELSE IF c.type = iTXt THEN summarizeItxt(c, d)
    ELSE IF c.type = tEXt THEN summarizeText(c, d)
    ELSE IF c.type = zTXt THEN summarizeZtxt(c, d)
    ELSE Says(IF c.type[1] \in 97..122 THEN "Ancillary chunk" ELSE "Critical chunk", <<>>,
              <<34>> \o escapeHtml(c.type) \o <<34>>)

\* a summary helper without its try: what summarizeChunk throws goes on
getChunkSummaryTextUncaught(c, d, info) == summarizeChunk(c, d, info)

\* v3: what summarizeChunk throws becomes the text "Error: ..." of this chunk
getChunkSummaryText(c, d, info) ==
    LET summary == summarizeChunk(c, d, info)
    IN  IF summary.thrown THEN Summary(FALSE, TRUE, summary.text, <<>>, <<>>) ELSE summary

\* v2: its own switch; every throw becomes "Error parsing summary"
getChunkSummaryTextV2(c, d, info) ==
    IF c.type = IHDR
    THEN LET i == parseIhdrDataV2(d)
         IN  IF i.thrown THEN Summary(FALSE, TRUE, "Error parsing summary", <<>>, <<>>)
             ELSE Says("wxh, b-bit, Type c",
                       <<i.info.width, i.info.height, N(i.info.bitDepth), N(i.info.colorType)>>,
                       <<>>)
    ELSE IF c.type \in {tEXt, zTXt, iTXt}
    THEN Says("Key: ", <<>>, <<34>> \o readLatin1V2(d, 0, indexOf(d, 0, 0)) \o <<34>>)
    ELSE IF c.type = PLTE THEN Says("Palette: n colors", <<N(ToInt(c.length) \div 3)>>, <<>>)
    ELSE IF c.type = IDAT THEN Says("Image Data (Compressed)", <<>>, <<>>)
    ELSE Says("n bytes of data", <<c.length>>, <<>>)

\* the second column of a box: a <pre> holding text, a note, or nothing.
\* markup tells whether the characters were set as innerHTML or as textContent;
\* extracted is the string the text came from, if there was one
TextColumn(kind, note, chars, markup, extracted) ==
    [kind |-> kind, note |-> note, chars |-> chars, markup |-> markup, extracted |-> extracted]

NoString == [some |-> FALSE, chars |-> <<>>, note |-> ""]

String(chars) == [some |-> TRUE, chars |-> chars, note |-> ""]

\* v3: the try block of renderChunkBoxes for one chunk
textColumn(c, d) ==
    IF c.type = iTXt
    THEN LET nul0 == indexOf(d, 0, 0)
             nul1 == indexOf(d, 0, nul0 + 3)
             nul2 == indexOf(d, 0, nul1 + 1)
         IN  IF nul0 # -1 /\ nul0 + 3 <= ToInt(c.length) /\ nul1 # -1 /\ nul2 # -1
             THEN IF d[nul0 + 2] = 0
                  THEN LET text == readUtf8(d, nul2 + 1, ToInt(c.length) - (nul2 + 1))
                       IN  IF text.thrown
                           THEN TextColumn("placeholder", "(Error processing text: Invalid UTF-8)",
                                           <<>>, FALSE, NoString)
                           ELSE TextColumn("pre", "", text.chars, FALSE, String(text.chars))
                  ELSE TextColumn("placeholder", "(Compressed iTXt data)", <<>>, FALSE, NoString)
             ELSE TextColumn("placeholder", "(Invalid iTXt format)", <<>>, FALSE, NoString)
    ELSE IF c.type = zTXt
    THEN LET nul == indexOf(d, 0, 0)
         IN  IF nul # -1 /\ nul + 2 <= ToInt(c.length)
             THEN TextColumn("placeholder", "(Compressed zTXt data)", <<>>, FALSE, NoString)
             ELSE TextColumn("placeholder", "(Invalid zTXt format)", <<>>, FALSE, NoString)
    ELSE IF c.type # tEXt THEN TextColumn("none", "", <<>>, FALSE, NoString)
    ELSE LET nul == indexOf(d, 0, 0)
         IN  IF nul = -1
             THEN TextColumn("placeholder", "(Invalid tEXt format)", <<>>, FALSE, NoString)
             ELSE LET text == readLatin1(d, nul + 1, ToInt(c.length) - (nul + 1))
                  IN  IF text.thrown
                      THEN TextColumn("placeholder", "(Error processing text: Read past end)",
                                      <<>>, FALSE, NoString)
                      ELSE TextColumn("pre", "", text.chars, FALSE, String(text.chars))

\* v2
CompressedItxt == "[Compressed iTXt data - decompression not implemented in browser]"

CompressedZtxt == "[Compressed zTXt data]"

\* a string of the program's own: a note, which has nothing to escape
Note(text) == [some |-> TRUE, chars |-> <<>>, note |-> text]

extractTextContent(c, d) ==
    IF c.type = tEXt
    THEN LET nul == indexOf(d, 0, 0)
         IN  IF nul > 0 THEN String(readLatin1V2(d, nul + 1, ToInt(c.length) - (nul + 1)))
             ELSE NoString
    ELSE IF c.type = iTXt
    THEN LET nul0 == indexOf(d, 0, 0)
             nul1 == indexOf(d, 0, nul0 + 3)
             nul2 == indexOf(d, 0, nul1 + 1)
         IN  IF nul0 > 0 /\ nul0 + 3 <= ToInt(c.length)
             THEN IF d[nul0 + 2] = 0
                  THEN IF nul2 > 0
                       THEN String(readUtf8V2(d, nul2 + 1, ToInt(c.length) - (nul2 + 1)))
                       ELSE NoString
                  ELSE Note(CompressedItxt)
             ELSE NoString
    ELSE IF c.type = zTXt THEN Note(CompressedZtxt)
    ELSE NoString

\* v2: textContent ? <pre>escapeHtml(textContent)</pre> : "Binary data (not
\* displayed)"; the empty string is falsy
textColumnV2(c, d) ==
    LET textContent == extractTextContent(c, d)
    IN  IF textContent.some /\ (textContent.chars # <<>> \/ textContent.note # "")
        THEN TextColumn("pre", textContent.note, escapeHtml(textContent.chars), TRUE, textContent)
        ELSE TextColumn("placeholder", "Binary data (not displayed)", <<>>, FALSE, textContent)

Box(c, summary, text) ==
    [type |-> c.type, offset |-> c.offset, length |-> c.length, crc |-> c.crc,
     crcOk |-> c.crcOk, summary |-> summary, text |-> text]

\* parseResult.chunks.find(c => c.type === 'IHDR'): its place, 0 for none
findIhdr(cs) ==
    LET places == {k \in 1..Len(cs) : cs[k].type = IHDR}
    IN  IF places = {} THEN 0 ELSE CHOOSE k \in places : \A other \in places : k <= other

\* a handler that replaces the warnings by the new one instead of pushing it
contextWarningAlone(ws, text) == <<Warn(text, N(0))>>

\* parseResult.warnings.push(text): this warning names no offset
contextWarning(ws, text) == Append(ws, Warn(text, N(0)))

\* from readPngChunks' return to the call of the render function
deriveContext(s, b, v) ==
    LET cs == s.result.chunks
        ws == s.result.warnings
        at == findIhdr(cs)
        parsed == IF at = 0 THEN [thrown |-> FALSE, text |-> "", info |-> NoInfo]
                  ELSE IF v = "v2" THEN parseIhdrDataV2(viewBytes(b, cs[at].data))
                  ELSE parseIhdrData(viewBytes(b, cs[at].data))
        failed == IF v = "v2" THEN "Failed to parse IHDR: " ELSE "Failed to parse IHDR data for context."
    IN  [s EXCEPT !.pc = "context",
                  !.ihdrInfo = parsed.info,
                  !.parseResult = [chunks |-> cs,
                                   warnings |-> IF parsed.thrown THEN contextWarning(ws, failed)
                                                ELSE ws]]

\* the boxes of the chunks up to the first whose summary throws
RECURSIVE boxesOf(_, _, _, _)
boxesOf(cs, b, info, v) ==
    IF cs = <<>> THEN <<>>
    ELSE LET c == Head(cs)
             d == viewBytes(b, c.data)
             box == IF v = "v2" THEN Box(c, getChunkSummaryTextV2(c, d, info), textColumnV2(c, d))
                    ELSE Box(c, getChunkSummaryText(c, d, info), textColumn(c, d))
         IN  IF v = "v2" /\ c.type = IDAT THEN boxesOf(Tail(cs), b, info, v)
             ELSE IF box.summary.thrown THEN <<box>>
             ELSE <<box>> \o boxesOf(Tail(cs), b, info, v)

Message(kind, text) == [kind |-> kind, text |-> text]

\* the page after the boxes were built: an exception leaves the boxes appended
\* so far and goes to onload's catch
rendered(s, boxes) ==
    IF boxes # <<>> /\ boxes[Len(boxes)].summary.thrown
    THEN [s EXCEPT !.pc = "shown",
                   !.chunkResultsContainer = SubSeq(boxes, 1, Len(boxes) - 1),
                   !.messageElem = Message("error", boxes[Len(boxes)].summary.text)]
    ELSE [s EXCEPT !.pc = "rendered", !.chunkResultsContainer = boxes]

\* renderChunkBoxes (v3) or auditMetadata, renderDashboard and renderChunkList
\* (v2, whose audit and dashboard only read the chunks)
render(s, b, v) ==
    CHOOSE t \in {rendered(s, boxes) : boxes \in {boxesOf(s.parseResult.chunks, b, s.ihdrInfo, v)}} :
        TRUE

\* the end of onload's try block
showOutcome(s, v) ==
    [s EXCEPT !.pc = "shown",
              !.messageElem =
                  IF v = "v2" THEN Message("status", "Analysis Complete.")
                  ELSE IF Len(s.parseResult.warnings) > 0
                  THEN Message("status", "File parsed with warnings (see console).")
                  ELSE Message("status", "File parsed successfully.")]

\* onload's catch: the message is set and nothing else is touched
showError(s) ==
    [s EXCEPT !.pc = "shown", !.messageElem = Message("error", s.result.message)]

(***************************************************************************)
(* Input buffers.  A buffer is a signature and up to MaxChunks pieces:     *)
(* chunks of the kinds in Parts, the last piece possibly an ending that    *)
(* stops the scan.                                                         *)
(***************************************************************************)
MaxChunks == 3

\* the four bytes of an unsigned 32-bit value, big-endian
U32Bytes(n) == <<n[1] \div 256, n[1] % 256, n[2] \div 256, n[2] % 256>>

MkChunk(lengthField, type, payload, crc) ==
    U32Bytes(lengthField) \o type \o payload \o U32Bytes(crc)

GoodChunk(type, payload) ==
    MkChunk(N(Len(payload)), type, payload, StdCrc32Seq(type \o payload))

\* the stored checksum is the right one with the bits of flip inverted
BadCrcChunk(type, payload, flip) ==
    MkChunk(N(Len(payload)), type, payload, XorBits(StdCrc32Seq(type \o payload), flip))

\* width 1, height 1, bit depth 8, grayscale, methods 0
IhdrPayload == <<0, 0, 0, 1, 0, 0, 0, 1, 8, 0, 0, 0, 0>>

\* "I0AT": a digit in the tag
BadTag == <<73, 48, 65, 84>>

LowBit == <<0, 1>>

TopBit == <<32768, 0>>

Parts ==
    { GoodChunk(IHDR, IhdrPayload),             \* checksum 3A7E9B55
      GoodChunk(IDAT, <<>>),                    \* checksum 35AF061E
      GoodChunk(IEND, <<>>),                    \* checksum AE426082, top bit set
      BadCrcChunk(IDAT, <<1>>, LowBit),
      BadCrcChunk(tEXt, <<65, 0, 66>>, TopBit),
      MkChunk(N(1), BadTag, <<7>>, N(0)) }      \* a malformed tag that can be skipped

Endings ==
    { <<0, 0, 0>>,                                       \* fewer than 8 bytes
      MkChunk(LargeLength, IDAT, <<>>, N(0)),            \* length field 2^31
      U32Bytes(N(5)) \o IDAT \o <<1, 2>>,                \* payload cut short
      U32Bytes(N(9)) \o BadTag \o <<1>>,                 \* malformed tag, no room to skip
      U32Bytes(AllOnes) \o BadTag }                      \* malformed tag, length 2^32 - 1

RECURSIVE Bodies(_)
Bodies(n) ==
    IF n = 0 THEN {<<>>}
    ELSE LET shorter == Bodies(n - 1)
         IN  shorter \cup {body \o part : body \in shorter, part \in Parts}

\* every proper prefix of the signature, and the signature with one byte changed
ShortPrefixes == {SubSeq(PNG_SIGNATURE, 1, k) : k \in 0..7}

DamagedSignatures ==
    {[PNG_SIGNATURE EXCEPT ![k] = (@ + 1) % 256] \o GoodChunk(IHDR, IhdrPayload) : k \in 1..8}

\* a chunk whose payload is 2^31 zero bytes, between a header chunk and an
\* end chunk; the stored checksum is the right one, or zero
HugeBuffers ==
    LET rightCrc == StdCrc32(IDAT, Buf(<<>>, LargeLength, <<>>), N(0), LargeLength)
    IN  { Buf(PNG_SIGNATURE \o GoodChunk(IHDR, IhdrPayload) \o U32Bytes(LargeLength) \o IDAT,
              LargeLength,
              U32Bytes(crc) \o GoodChunk(IEND, <<>>)) : crc \in {rightCrc, N(0)} }

\* a file the strict copy accepts: the checksums of its three chunks have the
\* top bit clear (3A7E9B55, 35AF061E, 3F142ECD; the end chunk carries a byte)
AcceptedFiles ==
    { PlainBuf(PNG_SIGNATURE \o GoodChunk(IHDR, IhdrPayload) \o GoodChunk(IDAT, <<>>)
                   \o GoodChunk(IEND, <<2>>)) }

\* the signature and one IHDR-typed chunk whose length field is not 13: with
\* a payload of that length and the right checksum, or declaring more than
\* the buffer holds
WrongLengthHeaders ==
    { PlainBuf(PNG_SIGNATURE \o GoodChunk(IHDR, payload)) :
          payload \in {<<>>, SubSeq(IhdrPayload, 1, 12), IhdrPayload \o <<0>>} }
        \cup { PlainBuf(PNG_SIGNATURE \o MkChunk(declared, IHDR, IhdrPayload, N(0))) :
                   declared \in {N(14), LargeLength} }

\* chunks no copy warns of by themselves: their checksums have the top bit
\* clear (the end chunk carries a byte)
QuietParts == {GoodChunk(IHDR, IhdrPayload), GoodChunk(IDAT, <<>>), GoodChunk(IEND, <<2>>)}

RECURSIVE QuietBodies(_)
QuietBodies(n) ==
    IF n = 0 THEN {<<>>}
    ELSE LET shorter == QuietBodies(n - 1)
         IN  shorter \cup {body \o part : body \in shorter, part \in QuietParts}

Buffers ==
    {PlainBuf(PNG_SIGNATURE \o body) : body \in Bodies(MaxChunks) \cup QuietBodies(MaxChunks)}
        \cup {PlainBuf(PNG_SIGNATURE \o body \o ending) :
                  body \in Bodies(MaxChunks - 1), ending \in Endings}
        \cup {PlainBuf(short) : short \in ShortPrefixes \cup DamagedSignatures}
        \cup HugeBuffers
        \cup AcceptedFiles
        \cup WrongLengthHeaders

(***************************************************************************)
(* The specification: one call of readPngChunks on one buffer              *)
(***************************************************************************)
\* fileElem.files is empty
NoFile == PlainBuf(<<>>)

\* the page before any analysis: no context, no boxes, no message, no reader
PageAtRest ==
    /\ parseResult = NoResult
    /\ ihdrInfo = NoInfo
    /\ chunkResultsContainer = <<>>
    /\ messageElem = NoMessage
    /\ readers = <<>>
    /\ requests = 0
    /\ fileElem = NoFile

\* the first call of readPngChunks is about to start
BeforeCall ==
    /\ crcTable = Null
    /\ pc = "start"
    /\ index = N(0)
    /\ chunks = <<>>
    /\ warnings = <<>>
    /\ foundIhdr = FALSE
    /\ foundIdat = FALSE
    /\ foundIend = FALSE
    /\ result = NoResult
    /\ oob = FALSE
    /\ previous = NoResult
    /\ PageAtRest

Init ==
    /\ variant \in Variants
    /\ bytes \in Buffers
    /\ BeforeCall

CheckSignature ==
    /\ pc = "start"
    /\ Commit(checkSignature(Frame, bytes,
                             IF variant = "strict" THEN "Not a PNG file"
                             ELSE "Not a PNG file (invalid signature)"))

\* while (index < bytes.length)
InLoop == pc = "scan" /\ Lt(index, BufLen(bytes))

ScanChunkV1 == variant = "v1" /\ InLoop /\ Commit(scanV1(Frame, bytes))

ScanChunkV2 == variant = "v2" /\ InLoop /\ Commit(scanV2(Frame, bytes))

ScanChunkV3 == variant = "v3" /\ InLoop /\ Commit(scanV3(Frame, bytes))

ScanChunkStrict == variant = "strict" /\ InLoop /\ Commit(scanStrict(Frame, bytes))

LeaveLoop ==
    /\ pc = "scan"
    /\ ~Lt(index, BufLen(bytes))
    /\ Commit([Frame EXCEPT !.pc = "after"])

FinishV1 == variant = "v1" /\ pc = "after" /\ Commit(finishV1(Frame, bytes))

FinishV2 == variant = "v2" /\ pc = "after" /\ Commit(finishV2(Frame))

FinishV3 == variant = "v3" /\ pc = "after" /\ Commit(finishV3(Frame, bytes))

FinishStrict == variant = "strict" /\ pc = "after" /\ Commit(finishStrict(Frame))

Next ==
    \/ CheckSignature
    \/ ScanChunkV1
    \/ ScanChunkV2
    \/ ScanChunkV3
    \/ ScanChunkStrict
    \/ LeaveLoop
    \/ FinishV1
    \/ FinishV2
    \/ FinishV3
    \/ FinishStrict

Spec == Init /\ [][Next]_vars

(***************************************************************************)
(* Two calls on the same buffer.  Between the calls the page keeps only    *)
(* crcTable; a parse of another file in between leaves it built if that    *)
(* parse computed a checksum.                                              *)
(***************************************************************************)
Finished == pc \in {"done", "failed"}

\* readPngChunks is one synchronous call: once entered it runs on until it
\* has returned or thrown.  This is weak fairness of Next, WF_vars(Next), with
\* ENABLED <<Next>>_vars written out: a step of Next is possible, and changes
\* pc or index, in exactly the states that are not Finished
SpecLive == Init /\ [][Next]_vars /\ ([]<>Finished \/ []<><<Next>>_vars)

CallAgain ==
    /\ Finished
    /\ previous = NoResult
    /\ previous' = result
    /\ \E intervening \in BOOLEAN :
           crcTable' = IF intervening THEN tableAfterUse(crcTable) ELSE crcTable
    /\ pc' = "start"
    /\ index' = N(0)
    /\ chunks' = <<>>
    /\ warnings' = <<>>
    /\ foundIhdr' = FALSE
    /\ foundIdat' = FALSE
    /\ foundIend' = FALSE
    /\ result' = NoResult
    /\ UNCHANGED <<variant, bytes, oob, parseResult, ihdrInfo, chunkResultsContainer,
                   messageElem, readers, requests, fileElem>>

NextTwice == Next \/ CallAgain

SpecTwice == Init /\ [][NextTwice]_vars

(***************************************************************************)
(* One analysis: reader.onload from the call of readPngChunks to the       *)
(* message, in the two copies whose handler derives a header context (v3   *)
(* and v2), on files of a header chunk, a tRNS chunk, a tEXt chunk, an     *)
(* empty IDAT chunk and an end chunk.                                      *)
(***************************************************************************)
Analysed == {"v2", "v3"}

IhdrBytes(width, height, bitDepth, colorType, compression, filter, interlace) ==
    U32Bytes(N(width)) \o U32Bytes(N(height))
        \o <<bitDepth, colorType, compression, filter, interlace>>

\* headers summarizeChunk should accept
GoodHeaders ==
    { IhdrPayload,
      IhdrBytes(1, 1, 8, 0, 0, 0, 1),       \* interlaced
      IhdrBytes(1, 1, 8, 3, 0, 0, 0),       \* indexed
      IhdrBytes(1, 1, 8, 6, 0, 0, 0),       \* with alpha
      IhdrBytes(2, 3, 16, 2, 0, 0, 0) }     \* truecolor

BadHeaders ==
    { IhdrBytes(0, 1, 8, 0, 0, 0, 0),       \* width 0
      IhdrBytes(1, 0, 8, 0, 0, 0, 0),       \* height 0
      IhdrBytes(1, 1, 3, 0, 0, 0, 0),       \* no such bit depth
      IhdrBytes(1, 1, 4, 2, 0, 0, 0),       \* bit depth 4 is not for truecolor
      IhdrBytes(1, 1, 8, 0, 1, 0, 0),       \* compression method 1
      IhdrBytes(1, 1, 8, 0, 0, 1, 0),       \* filter method 1
      IhdrBytes(1, 1, 8, 0, 0, 0, 2),       \* interlace method 2
      SubSeq(IhdrPayload, 1, 12),
      IhdrPayload \o <<0>> }

TrnsPayloads == {<<0, 1>>, <<7>>}

Author == <<65, 117, 116, 104, 111, 114>>

JaneDoe == <<74, 97, 110, 101, 32, 68, 111, 101>>

\* a keyword of the given length
Letters_k(n) == [j \in 1..n |-> 107]

\* keyword, zero byte, text
TextOf(keyword, text) == keyword \o <<0>> \o text

\* keywords of 1 to 79 code points without a zero, each with a text
GoodTexts ==
    { <<Author, JaneDoe>>,
      <<<<38, 60, 62, 34, 39>>, <<60, 98, 62, 38, 97, 109, 112, 59>>>>,   \* &<>"' and <b>&amp;
      <<<<233>>, <<0, 10, 13, 128, 255>>>>,
      <<LtEntity, <<>>>>,                                                  \* the keyword "&lt;"
      <<Letters_k(79), <<120>>>> }

BadTexts == { <<65, 66>>, <<0, 65>>, TextOf(Letters_k(80), <<120>>) }

TextPayloads == {TextOf(kt[1], kt[2]) : kt \in GoodTexts} \cup BadTexts

EndPayloads == {<<>>, <<2>>}

AnalysisFile(header, trns, text, end) ==
    PlainBuf(PNG_SIGNATURE \o GoodChunk(IHDR, header) \o GoodChunk(tRNS, trns)
                 \o GoodChunk(tEXt, text) \o GoodChunk(IDAT, <<>>) \o GoodChunk(IEND, end))

AnalysisFiles ==
    { AnalysisFile(header, trns, text, end) :
          header \in GoodHeaders \cup BadHeaders, trns \in TrnsPayloads,
          text \in TextPayloads, end \in EndPayloads }

\* files readPngChunks may reject: a damaged signature, no header chunk
FatalFiles ==
    { PlainBuf([PNG_SIGNATURE EXCEPT ![1] = 0] \o GoodChunk(IHDR, IhdrPayload)),
      PlainBuf(PNG_SIGNATURE \o GoodChunk(IEND, <<>>)) }

\* files whose header chunk is not the first chunk: an empty IDAT chunk comes
\* before it, a tRNS chunk and an end chunk after it
MisplacedHeaderFiles ==
    { PlainBuf(PNG_SIGNATURE \o GoodChunk(IDAT, <<>>) \o GoodChunk(IHDR, header)
                   \o GoodChunk(tRNS, trns) \o GoodChunk(IEND, <<>>)) :
          header \in {IhdrPayload, IhdrBytes(1, 1, 8, 3, 0, 0, 0), IhdrBytes(1, 1, 3, 0, 0, 0, 0)},
          trns \in TrnsPayloads }

InitAnalysis ==
    /\ variant \in Analysed
    /\ bytes \in AnalysisFiles \cup FatalFiles \cup MisplacedHeaderFiles
    /\ BeforeCall

DeriveContext ==
    /\ variant \in Analysed
    /\ pc = "done"
    /\ Commit(deriveContext(Frame, bytes, variant))

Render ==
    /\ pc = "context"
    /\ Commit(render(Frame, bytes, variant))

ShowOutcome ==
    /\ pc = "rendered"
    /\ Commit(showOutcome(Frame, variant))

ShowError ==
    /\ variant \in Analysed
    /\ pc = "failed"
    /\ Commit(showError(Frame))

NextAnalysis ==
    \/ CheckSignature
    \/ ScanChunkV2
    \/ ScanChunkV3
    \/ LeaveLoop
    \/ FinishV2
    \/ FinishV3
    \/ DeriveContext
    \/ Render
    \/ ShowOutcome
    \/ ShowError

SpecAnalysis == InitAnalysis /\ [][NextAnalysis]_vars

(***************************************************************************)
(* The summaries of single chunks: the same handler on files of a header   *)
(* chunk, one chunk X whose summary depends on the header or on its own    *)
(* payload, an empty IDAT chunk and an end chunk.                          *)
(***************************************************************************)
\* the largest number of alpha entries of a palette
MaxPalette == 256

\* n bytes 1, 2, ..., never a zero
Filler(n) == [j \in 1..n |-> ((j - 1) % 255) + 1]

SummaryFile(header, type, payload) ==
    PlainBuf(PNG_SIGNATURE \o GoodChunk(IHDR, header) \o GoodChunk(type, payload)
                 \o GoodChunk(IDAT, <<>>) \o GoodChunk(IEND, <<>>))

\* a header of each colour type, and one that gives no context
ContextHeaders ==
    { IhdrBytes(1, 1, 8, colorType, 0, 0, 0) : colorType \in {0, 2, 3, 4, 6} }
        \cup { IhdrBytes(1, 1, 3, 0, 0, 0, 0) }

\* the same file with a payload of n zero bytes
ZeroPayloadFile(header, type, n) ==
    Buf(PNG_SIGNATURE \o GoodChunk(IHDR, header) \o U32Bytes(N(n)) \o type,
        N(n),
        U32Bytes(StdCrc32(type, Buf(<<>>, N(n), <<>>), N(0), N(n)))
            \o GoodChunk(IDAT, <<>>) \o GoodChunk(IEND, <<>>))

ContextChunks ==
    ({tRNS} \X {Filler(n) : n \in {0, 1, 2, 3, 6, 7}})
        \cup ({sBIT} \X {Filler(n) : n \in 0..5})
        \cup ({bKGD} \X {Filler(n) : n \in {0, 1, 2, 3, 6, 7}})

\* the long tRNS payloads are as many alpha entries as a palette can have, and
\* one more
ContextFiles ==
    { SummaryFile(header, tp[1], tp[2]) : header \in ContextHeaders, tp \in ContextChunks }
        \cup { ZeroPayloadFile(header, tRNS, n) :
                   header \in ContextHeaders, n \in {MaxPalette, MaxPalette + 1} }

\* the longest keyword a text chunk may have
MaxKeyword == 79

\* keywords: none, "K", a control character, a Latin-1 letter, the longest
\* allowed and one byte more
Keywords == {<<>>, <<75>>, <<7>>, <<233>>, Letters_k(MaxKeyword), Letters_k(MaxKeyword + 1)}

\* what follows the keyword of a tEXt chunk: nothing (no terminator), the
\* terminator, the terminator and a text
TextRests == {<<>>, <<0>>, <<0, 104>>}

\* of a zTXt chunk: also the compression methods 0 and 1, and compressed data
ZtxtRests == {<<>>, <<0>>, <<0, 0>>, <<0, 1>>, <<0, 0, 120>>}

\* of an iTXt chunk, after the keyword's terminator: the compression flag and
\* method, or less
ItxtFlags == {<<0, 0>>, <<0, 1>>, <<1, 0>>, <<1, 1>>, <<2, 0>>}

\* and after them: the language tag, the translated keyword and the text,
\* with and without their terminators, with a byte order mark, and with bytes
\* that are not UTF-8
ItxtRests ==
    { <<>>, <<0>>, <<101>>, <<0, 116>>, <<0, 0>>, <<101, 0, 195, 169, 0>>, <<0, 195, 0>>,
      <<0, 0, 104>>, <<0, 0, 239, 187, 191, 104>>, <<0, 0, 195, 169, 38>>, <<0, 0, 255>>,
      <<0, 0, 195>> }

TextChunks ==
    ({tEXt} \X {k \o rest : k \in Keywords, rest \in TextRests})
        \cup ({zTXt} \X {k \o rest : k \in Keywords, rest \in ZtxtRests})
        \cup ({iTXt} \X ({k \o rest : k \in Keywords, rest \in {<<>>, <<0, 0, 0, 0, 0, 104>>}}
                            \cup {<<75, 0>> \o flags \o rest :
                                      flags \in ItxtFlags, rest \in ItxtRests}
                            \cup {<<75, 0>>, <<75, 0, 0>>, <<75, 0, 1>>}))

TextFiles == { SummaryFile(IhdrPayload, tp[1], tp[2]) : tp \in TextChunks }

InitSummary ==
    /\ variant \in Analysed
    /\ bytes \in ContextFiles \cup TextFiles \cup FatalFiles
    /\ BeforeCall

SpecSummary == InitSummary /\ [][NextAnalysis]_vars

(***************************************************************************)
(* The page: analyzeFile starts a FileReader for the chosen file, and the  *)
(* readers' load and error events arrive one at a time, in any order.      *)
(* Each handler runs to its end before the next event.                     *)
(***************************************************************************)
MaxRequests == 2

\* one step of onload
stepOf(s, b, v) ==
    IF s.pc = "start" THEN checkSignature(s, b, "Not a PNG file (invalid signature)")
    ELSE IF s.pc = "scan"
    THEN IF ~Lt(s.index, BufLen(b)) THEN [s EXCEPT !.pc = "after"]
         ELSE IF v = "v2" THEN scanV2(s, b) ELSE scanV3(s, b)
    ELSE IF s.pc = "after" THEN (IF v = "v2" THEN finishV2(s) ELSE finishV3(s, b))
    ELSE IF s.pc = "done" THEN deriveContext(s, b, v)
    ELSE IF s.pc = "context" THEN render(s, b, v)
    ELSE IF s.pc = "rendered" THEN showOutcome(s, v)
    ELSE showError(s)

\* onload from its first statement to its last
RECURSIVE onload(_, _, _)
onload(s, b, v) == IF s.pc = "shown" THEN s ELSE onload(stepOf(s, b, v), b, v)

\* the handler's locals as it starts; the page and the table are as they are
Entered(s) ==
    [s EXCEPT !.pc = "start", !.index = N(0), !.chunks = <<>>, !.warnings = <<>>,
              !.foundIhdr = FALSE, !.foundIdat = FALSE, !.foundIend = FALSE,
              !.result = NoResult, !.parseResult = NoResult, !.ihdrInfo = NoInfo]

\* the files the user picks from: two that parse, two that do not
PageFiles ==
    { AnalysisFile(IhdrPayload, <<0, 1>>, TextOf(Author, JaneDoe), <<>>),
      AnalysisFile(IhdrBytes(1, 1, 8, 3, 0, 0, 0), <<7>>, <<65, 66>>, <<>>) }
        \cup FatalFiles

Without(seq, k) == SubSeq(seq, 1, k - 1) \o SubSeq(seq, k + 1, Len(seq))

InitPage ==
    /\ variant \in Analysed
    /\ bytes = PlainBuf(<<>>)
    /\ BeforeCall

\* analyzeFile with no file chosen
AnalyzeNoFile ==
    /\ messageElem' = IF variant = "v2" THEN Message("status", "Please select a file first.")
                      ELSE Message("status", "No file selected")
    /\ chunkResultsContainer' = IF variant = "v2" THEN chunkResultsContainer ELSE <<>>
    /\ fileElem' = NoFile
    /\ UNCHANGED <<variant, bytes, crcTable, pc, index, chunks, warnings, foundIhdr, foundIdat,
                   foundIend, result, oob, previous, parseResult, ihdrInfo, readers, requests>>

\* analyzeFile with a file chosen
AnalyzeFile ==
    /\ requests < MaxRequests
    /\ \E file \in PageFiles : fileElem' = file /\ readers' = Append(readers, file)
    /\ requests' = requests + 1
    /\ messageElem' = Message("status", "Reading file...")
    /\ chunkResultsContainer' = <<>>
    /\ UNCHANGED <<variant, bytes, crcTable, pc, index, chunks, warnings, foundIhdr, foundIdat,
                   foundIend, result, oob, previous, parseResult, ihdrInfo>>

OnLoad ==
    \E k \in DOMAIN readers :
        /\ \E next \in {onload(Entered(Frame), readers[k], variant)} : Assign(next)
        /\ bytes' = readers[k]
        /\ readers' = Without(readers, k)
        /\ UNCHANGED <<variant, previous, requests, fileElem>>

\* reader.onerror: v3 sets the message, v2 has no handler
OnError ==
    \E k \in DOMAIN readers :
        /\ readers' = Without(readers, k)
        /\ messageElem' = IF variant = "v2" THEN messageElem
                          ELSE Message("error", "File reading error")
        /\ UNCHANGED <<variant, bytes, crcTable, pc, index, chunks, warnings, foundIhdr,
                       foundIdat, foundIend, result, oob, previous, parseResult, ihdrInfo,
                       chunkResultsContainer, requests, fileElem>>

NextPage ==
    \/ AnalyzeNoFile
    \/ AnalyzeFile
    \/ OnLoad
    \/ OnError

SpecPage == InitPage /\ [][NextPage]_vars

(***************************************************************************)
(* Vocabulary of the properties                                            *)
(***************************************************************************)
Returned == result.kind = "ok"

\* offset + 8 + length + 4 of a record
recordEnd(c) == Add(Add(c.offset, N(12)), c.length)

IsUint32(r) == r[1] \in 0..(W16 - 1) /\ r[2] \in 0..(W16 - 1)

\* what the copy's computeCrc yields for a record's type and payload
ComputedCrc(c) == computeCrc(BuiltCrcTable, c.type, bytes, c.data)

\* the CRC-32 of a record's type and payload
StandardCrc(c) == StdCrc32(c.type, bytes, c.data.from, c.data.to)

HasWarning(ws, kind, at) == \E k \in 1..Len(ws) : ws[k] = Warn(kind, at)

WarningsAt(ws, kind, at) == Cardinality({k \in 1..Len(ws) : ws[k] = Warn(kind, at)})

WarningsOfKind(ws, kind) == Cardinality({k \in 1..Len(ws) : ws[k].kind = kind})

\* the first eight bytes are not the signature, or are not there
BadSignature ==
    Lt(BufLen(bytes), N(8)) \/ readAscii(bytes, N(0), 8) # PNG_SIGNATURE

\* the length field and the type tag under the cursor
LengthAtCursor == readUint32(bytes, index)

TypeAtCursor == readAscii(bytes, Add(index, N(4)), 4)

\* fewer than 8 bytes remain at the cursor, or the chunk there does not fit
DoesNotFit ==
    /\ InLoop
    /\ \/ Lt(BufLen(bytes), Add(index, N(8)))
       \/ Lt(BufLen(bytes), Add(Add(index, N(12)), LengthAtCursor))

(***************************************************************************)
(* C1, C2: the checksum                                                    *)
(***************************************************************************)
\* C1: for every chunk record the lenient copies produce, crcOk is true if and
\* only if the stored 32-bit value equals the standard CRC-32 of the type
\* bytes followed by the payload, whatever the value's top bit.
C1_ChecksumValidIffStandard ==
    variant \in Lenient =>
        \A k \in 1..Len(chunks) : chunks[k].crcOk <=> (chunks[k].crc = StandardCrc(chunks[k]))

\* C2: computeCrc returns an unsigned 32-bit value, 0 <= r < 2^32, for the
\* type and payload of every chunk it is applied to.
C2_ComputeCrcIsUint32 ==
    \A k \in 1..Len(chunks) : IsUint32(ComputedCrc(chunks[k]))

(***************************************************************************)
(* C3: the signature                                                       *)
(***************************************************************************)
\* C3: for a buffer shorter than 8 bytes or whose first 8 bytes are not the
\* signature, readPngChunks throws the not-a-PNG error, with no chunk list
\* and no warnings, and reads no byte at or past the end of the buffer.
C3_NotAPngIsFatal ==
    (pc # "start" /\ BadSignature) =>
        /\ pc = "failed"
        /\ result \in {Throw("Not a PNG file"), Throw("Not a PNG file (invalid signature)")}
        /\ chunks = <<>>
        /\ warnings = <<>>
        /\ ~oob

\* the zero-length buffer has been refused
C3_Witness ==
    /\ BufLen(bytes) = N(0)
    /\ pc = "failed"
    /\ result.kind = "error"

(***************************************************************************)
(* C4: checksum mismatches in the lenient copies                           *)
(***************************************************************************)
\* the chunk under the cursor is one the copy keeps, and its stored checksum
\* differs from the computed one
MismatchAtCursor ==
    /\ variant \in Lenient
    /\ InLoop
    /\ ~DoesNotFit
    /\ variant \in {"v1", "v3"} => isFourLetters(TypeAtCursor)
    /\ variant = "v2" => Lt(LengthAtCursor, LargeLength)
    /\ readUint32(bytes, Add(Add(index, N(8)), LengthAtCursor))
           # computeCrc(BuiltCrcTable, TypeAtCursor, bytes,
                        Subarray(Add(index, N(8)), Add(Add(index, N(8)), LengthAtCursor)))

\* the pass over such a chunk appends it with crcOk = FALSE and goes on
MismatchIsKept ==
    MismatchAtCursor =>
        /\ pc' = "scan"
        /\ Len(chunks') = Len(chunks) + 1
        /\ chunks'[Len(chunks')].offset = index
        /\ chunks'[Len(chunks')].type = TypeAtCursor
        /\ ~chunks'[Len(chunks')].crcOk

\* one crcMismatch warning for each record with crcOk = FALSE whose type is
\* not in silent, none for the others, and no other crcMismatch warning
MismatchesAreWarned(silent) ==
    variant \in Lenient =>
        /\ result.kind = "error" => result.message # "Chunk CRC mismatch"
        /\ \A k \in 1..Len(chunks) :
               /\ chunks[k].crcOk <=> (chunks[k].crc = ComputedCrc(chunks[k]))
               /\ WarningsAt(warnings, "crcMismatch", chunks[k].offset)
                      = IF ~chunks[k].crcOk /\ chunks[k].type \notin silent THEN 1 ELSE 0
        /\ WarningsOfKind(warnings, "crcMismatch")
               = Cardinality({k \in 1..Len(chunks) :
                                  ~chunks[k].crcOk /\ chunks[k].type \notin silent})

\* C4 (as stated): in the lenient copies a checksum mismatch is never fatal;
\* the chunk is appended with crcOk = FALSE and the warnings hold exactly one
\* CRC-mismatch warning for it, whatever its type.
C4_OneWarningPerMismatch ==
    [](MismatchesAreWarned({})) /\ [][MismatchIsKept]_vars

\* C4 (amended): in the lenient copies a checksum mismatch is never fatal and
\* the chunk is appended with crcOk = FALSE; v1 and v3 hold exactly one
\* CRC-mismatch warning for it whatever its type, v2 exactly one unless the
\* type is IDAT, and then none.
C4_OneWarningPerMismatchButIdatInV2 ==
    [](MismatchesAreWarned(IF variant = "v2" THEN {IDAT} ELSE {})) /\ [][MismatchIsKept]_vars

\* v2 has kept a mismatching tEXt chunk with its warning and a mismatching
\* IDAT chunk without one
C4_Witness ==
    /\ variant = "v2"
    /\ Returned
    /\ \E k \in 1..Len(chunks) :
           /\ chunks[k].type = tEXt
           /\ ~chunks[k].crcOk
           /\ HasWarning(warnings, "crcMismatch", chunks[k].offset)
    /\ \E k \in 1..Len(chunks) :
           /\ chunks[k].type = IDAT
           /\ ~chunks[k].crcOk
           /\ ~HasWarning(warnings, "crcMismatch", chunks[k].offset)

(***************************************************************************)
(* C5, C6: the layout of the records of a ParseResult                      *)
(***************************************************************************)
\* C5 (as stated): for every ParseResult and every adjacent pair of records,
\* next.offset = prev.offset + 8 + prev.length + 4, also for buffers holding
\* a chunk with a malformed type tag.
C5_RecordsAreContiguous ==
    Returned =>
        \A k \in 1..(Len(result.chunks) - 1) :
            result.chunks[k + 1].offset = recordEnd(result.chunks[k])

\* C5 (amended): for every ParseResult and every adjacent pair of records,
\* next.offset >= prev.offset + 8 + prev.length + 4; the two are equal in v2
\* and in the strict copy, and in v1 and v3 unless a chunk with a malformed
\* type tag was skipped right after prev, which the warnings report at that
\* offset.
C5_RecordsAreContiguousButForSkips ==
    Returned =>
        \A k \in 1..(Len(result.chunks) - 1) :
            /\ Le(recordEnd(result.chunks[k]), result.chunks[k + 1].offset)
            /\ result.chunks[k + 1].offset # recordEnd(result.chunks[k]) =>
                   /\ variant \in {"v1", "v3"}
                   /\ HasWarning(result.warnings, "badType", recordEnd(result.chunks[k]))

\* v3 has returned two records with a skipped chunk between them
C5_Witness ==
    /\ variant = "v3"
    /\ Returned
    /\ \E k \in 1..(Len(result.chunks) - 1) :
           /\ Lt(recordEnd(result.chunks[k]), result.chunks[k + 1].offset)
           /\ HasWarning(result.warnings, "badType", recordEnd(result.chunks[k]))

RangesAreApart(cs) ==
    \A j, k \in 1..Len(cs) :
        j < k => /\ Lt(cs[j].offset, cs[k].offset)
                 /\ Le(recordEnd(cs[j]), cs[k].offset)

\* C6 (as stated): in every ParseResult the offsets are strictly increasing,
\* the ranges [offset, offset + 12 + length) of distinct records do not
\* overlap, and the first record's offset is 8.
C6_OffsetsIncreaseFromEight ==
    Returned =>
        /\ RangesAreApart(result.chunks)
        /\ Len(result.chunks) > 0 => result.chunks[1].offset = N(8)

\* C6 (amended): in every ParseResult the offsets are strictly increasing and
\* the ranges of distinct records do not overlap; the first record's offset
\* is 8 in v2 and in the strict copy, and in v1 and v3 it is 8 unless the
\* chunk at 8 had a malformed type tag and was skipped, and then it is more.
C6_OffsetsIncreaseFromEightOrAfterSkip ==
    Returned =>
        /\ RangesAreApart(result.chunks)
        /\ Len(result.chunks) > 0 =>
               /\ Le(N(8), result.chunks[1].offset)
               /\ result.chunks[1].offset # N(8) =>
                      /\ variant \in {"v1", "v3"}
                      /\ HasWarning(result.warnings, "badType", N(8))

\* v1 has returned records of which the first does not start at 8
C6_Witness ==
    /\ variant = "v1"
    /\ Returned
    /\ Len(result.chunks) > 1
    /\ Lt(N(8), result.chunks[1].offset)

(***************************************************************************)
(* C7: truncation                                                          *)
(***************************************************************************)
TruncationKinds == {"headerTruncated", "dataTruncated"}

\* the pass over a chunk that does not fit makes no record and ends the scan:
\* the lenient copies leave the loop with a last warning of one of the kinds,
\* the strict copy throws
StopsWith(kinds) ==
    DoesNotFit =>
        /\ chunks' = chunks
        /\ variant = "strict" => pc' = "failed"
        /\ variant \in Lenient =>
               /\ pc' = "after"
               /\ Len(warnings') > Len(warnings)
               /\ warnings'[Len(warnings')] \in {Warn(kind, index) : kind \in kinds}

\* once the scan has ended there are no more records
NoRecordAfterStop ==
    pc \in {"after", "done", "failed"} => (chunks' = chunks /\ pc' # "scan")

RecordsFitAndReadsAreInside ==
    /\ \A k \in 1..Len(chunks) : Le(recordEnd(chunks[k]), BufLen(bytes))
    /\ ~oob

\* C7 (as stated): a record is created only when offset + 8 + length + 4 <=
\* bufferLength; when fewer than 8 bytes remain at the cursor or the payload
\* plus checksum does not fit, a truncation warning is recorded, scanning
\* stops and no record is made of that chunk or of later bytes; no read is
\* made at an index >= bufferLength.
C7_TruncationStopsTheScan ==
    /\ []RecordsFitAndReadsAreInside
    /\ [][StopsWith(TruncationKinds) /\ NoRecordAfterStop]_vars

\* C7 (amended): as stated, except for the warning: v1 and v3 record a
\* cannot-skip warning, not a truncation warning, when the chunk that does
\* not fit has a malformed type tag, v2 records a length warning when the
\* length field is >= 2^31, and the strict copy throws.
C7_TruncationStopsTheScanWithSomeWarning ==
    /\ []RecordsFitAndReadsAreInside
    /\ [][/\ StopsWith(IF Lt(BufLen(bytes), Add(index, N(8))) THEN TruncationKinds
                       ELSE IF variant \in {"v1", "v3"} /\ ~isFourLetters(TypeAtCursor)
                            THEN {"cannotSkip"}
                       ELSE IF variant = "v2" /\ Le(LargeLength, LengthAtCursor)
                            THEN {"largeLength"}
                       ELSE TruncationKinds)
          /\ NoRecordAfterStop]_vars

\* v3 has kept a record and left the loop at a chunk whose payload is cut
C7_Witness ==
    /\ variant = "v3"
    /\ pc = "after"
    /\ Len(chunks) > 0
    /\ Len(warnings) > 0
    /\ warnings[Len(warnings)] = Warn("dataTruncated", index)
    /\ Lt(index, BufLen(bytes))

(***************************************************************************)
(* C8: the length field                                                    *)
(***************************************************************************)
\* C8 (as stated): every record of a ParseResult has 0 <= length < 2^31; a
\* chunk whose length field is >= 2^31 never becomes a record.
C8_LengthsAreBelowTwoToThe31 ==
    \A k \in 1..Len(chunks) :
        Le(N(0), chunks[k].length) /\ Lt(chunks[k].length, LargeLength)

\* C8 (amended): in v2 and in the strict copy every record has 0 <= length <
\* 2^31; in v1 and v3 a chunk whose length field is >= 2^31 becomes a record
\* when it fits in the buffer and its type tag is well formed, and the
\* warnings report its length.
C8_LengthsAreBelowTwoToThe31OrWarned ==
    \A k \in 1..Len(chunks) :
        /\ Le(N(0), chunks[k].length)
        /\ ~Lt(chunks[k].length, LargeLength) =>
               /\ variant \in {"v1", "v3"}
               /\ HasWarning(warnings, "largeLength", chunks[k].offset)

\* v3 has returned a record of length 2^31
C8_Witness ==
    /\ variant = "v3"
    /\ Returned
    /\ \E k \in 1..Len(result.chunks) : result.chunks[k].length = LargeLength

(***************************************************************************)
(* C9, C10: the header chunk                                               *)
(***************************************************************************)
HasIhdr(cs) == \E k \in 1..Len(cs) : cs[k].type = IHDR

\* C9: for every buffer with a valid signature in which the scan records no
\* IHDR chunk, readPngChunks throws and returns no chunk list or warnings; a
\* ParseResult is returned only if an IHDR chunk was recorded.
C9_MissingHeaderIsFatal ==
    /\ (pc \in {"done", "failed"} /\ ~BadSignature /\ ~HasIhdr(chunks)) => result.kind = "error"
    /\ Returned => HasIhdr(result.chunks)

\* C10 (as stated): in every ParseResult with a non-empty chunk sequence the
\* first record has type IHDR.
C10_FirstRecordIsIhdr ==
    (Returned /\ Len(result.chunks) > 0) => result.chunks[1].type = IHDR

\* C10 (amended): in every ParseResult of the strict copy the first record has
\* type IHDR; in one of v1 or v3 some record has type IHDR, and when the first
\* has not, the warnings say that IHDR is not the first chunk; v2 promises
\* nothing about the first record.
C10_FirstRecordIsIhdrOrWarned ==
    (Returned /\ Len(result.chunks) > 0 /\ variant # "v2") =>
        \/ result.chunks[1].type = IHDR
        \/ /\ variant \in {"v1", "v3"}
           /\ HasIhdr(result.chunks)
           /\ WarningsOfKind(result.warnings, "ihdrNotFirst") > 0

\* v3 has returned records of which the first is not IHDR
C10_Witness ==
    /\ variant = "v3"
    /\ Returned
    /\ Len(result.chunks) > 1
    /\ result.chunks[1].type # IHDR
    /\ WarningsOfKind(result.warnings, "ihdrNotFirst") = 1

(***************************************************************************)
(* C11: a header chunk of the wrong length                                 *)
(***************************************************************************)
\* the buffer is the signature and one IHDR-typed chunk whose length field is
\* not 13, with nothing after the chunk
SoleHeaderOfWrongLength ==
    /\ ~BadSignature
    /\ Le(N(20), BufLen(bytes))
    /\ readAscii(bytes, N(12), 4) = IHDR
    /\ readUint32(bytes, N(8)) # N(13)
    /\ Le(BufLen(bytes), Add(N(20), readUint32(bytes, N(8))))

\* that chunk fits in the buffer
SoleHeaderFits == BufLen(bytes) = Add(N(20), readUint32(bytes, N(8)))

\* C11 (as stated): a buffer of the signature and one IHDR-typed chunk whose
\* declared length is not 13 yields the fatal missing-header error and no
\* ParseResult, also when the chunk fits and carries a correct checksum.
C11_WrongLengthHeaderIsFatal ==
    (SoleHeaderOfWrongLength /\ Finished /\ variant \in {"v1", "v3"}) =>
        result \in {Throw("Missing IHDR chunk"), Throw("Critical Error: Missing IHDR chunk.")}

\* C11 (amended): for such a buffer v1 and v3 throw the missing-header error
\* exactly when the chunk does not fit in the buffer; when it fits they return
\* a ParseResult whose one record is that IHDR chunk with its declared length.
C11_WrongLengthHeaderIsFatalOnlyIfCut ==
    (SoleHeaderOfWrongLength /\ Finished /\ variant \in {"v1", "v3"}) =>
        IF SoleHeaderFits
        THEN /\ Returned
             /\ Len(result.chunks) = 1
             /\ result.chunks[1].type = IHDR
             /\ result.chunks[1].offset = N(8)
             /\ result.chunks[1].length = readUint32(bytes, N(8))
        ELSE result \in {Throw("Missing IHDR chunk"),
                         Throw("Critical Error: Missing IHDR chunk.")}

\* v3 has returned an IHDR record of 14 bytes that stores the right checksum
C11_Witness ==
    /\ SoleHeaderOfWrongLength
    /\ variant = "v3"
    /\ Returned
    /\ result.chunks[1].length = N(14)
    /\ result.chunks[1].crc = StandardCrc(result.chunks[1])

(***************************************************************************)
(* C17: the strict copy                                                    *)
(***************************************************************************)
\* the records tile the buffer from offset 8 to its end
TilesTheBuffer(cs) ==
    /\ Len(cs) > 0
    /\ cs[1].offset = N(8)
    /\ \A k \in 1..(Len(cs) - 1) : cs[k + 1].offset = recordEnd(cs[k])
    /\ recordEnd(cs[Len(cs)]) = BufLen(bytes)

\* C17: the strict copy returns a chunk list only if every length is < 2^31,
\* every tag is four ASCII letters, every stored checksum matched, the first
\* record is IHDR, the last is IEND, some record is IDAT, and the records tile
\* the buffer from offset 8 to exactly its end; otherwise it throws and
\* returns nothing.
C17_StrictReturnsOnlyWellFormed ==
    (variant = "strict" /\ Finished) =>
        /\ result.kind \in {"ok", "error"}
        /\ result.kind = "error" <=> pc = "failed"
        /\ Returned =>
               /\ result.warnings = <<>>
               /\ TilesTheBuffer(result.chunks)
               /\ result.chunks[1].type = IHDR
               /\ result.chunks[Len(result.chunks)].type = IEND
               /\ \E k \in 1..Len(result.chunks) : result.chunks[k].type = IDAT
               /\ \A k \in 1..Len(result.chunks) :
                      /\ Lt(result.chunks[k].length, LargeLength)
                      /\ \A n \in 1..4 : result.chunks[k].type[n] \in (65..90) \cup (97..122)
                      /\ readUint32(bytes, result.chunks[k].data.to)
                             = ComputedCrc(result.chunks[k])
                      /\ readUint32(bytes, result.chunks[k].data.to)
                             = StandardCrc(result.chunks[k])

\* the strict copy has returned the three records of a file
C17_Witness ==
    /\ variant = "strict"
    /\ Returned
    /\ Len(result.chunks) = 3

(***************************************************************************)
(* C19: type tags                                                          *)
(***************************************************************************)
TagsAreLetters ==
    \A k \in 1..Len(chunks) : \A n \in 1..4 : chunks[k].type[n] \in (65..90) \cup (97..122)

\* a chunk header is under the cursor and its tag is not four letters
BadTagAtCursor ==
    /\ InLoop
    /\ Le(Add(index, N(8)), BufLen(bytes))
    /\ \E n \in 1..4 : TypeAtCursor[n] \notin (65..90) \cup (97..122)

\* the pass over such a chunk makes no record and warns; it resumes after the
\* chunk when that is inside the buffer and past the cursor, or else warns a
\* second time and stops
BadTagIsSkippedOrStops ==
    (BadTagAtCursor /\ variant \in Lenient) =>
        LET after == Add(Add(index, N(12)), LengthAtCursor)
            large == IF Le(LargeLength, LengthAtCursor) THEN 1 ELSE 0
        IN  /\ chunks' = chunks
            /\ Len(warnings') >= Len(warnings) + large + 1
            /\ warnings'[Len(warnings) + large + 1] = Warn("badType", index)
            /\ IF Le(after, BufLen(bytes)) /\ Lt(index, after)
               THEN /\ pc' = "scan"
                    /\ index' = after
                    /\ Len(warnings') = Len(warnings) + large + 1
               ELSE /\ pc' = "after"
                    /\ Len(warnings') = Len(warnings) + large + 2
                    /\ warnings'[Len(warnings')] = Warn("cannotSkip", index)

\* C19: every chunk record has a type tag of exactly four ASCII letters; a
\* chunk whose tag does not match never becomes a record: the parser records
\* a warning and either resumes at i + 8 + L + 4, when that is within the
\* buffer and beyond the cursor, or records a second warning and stops.
C19_RecordsHaveLetterTags ==
    []TagsAreLetters /\ [][BadTagIsSkippedOrStops]_vars

(***************************************************************************)
(* C20: the warnings after the loop                                        *)
(***************************************************************************)
HasType(cs, type) == \E k \in 1..Len(cs) : cs[k].type = type

\* the scan was cut short by a truncation or by a chunk it could not skip
CutShort(ws) ==
    \E k \in 1..Len(ws) : ws[k].kind \in {"headerTruncated", "dataTruncated", "cannotSkip"}

MissingWarningsFor(copies) ==
    (Returned /\ variant \in copies) =>
        /\ WarningsOfKind(result.warnings, "missingIend") \in {0, 1}
        /\ WarningsOfKind(result.warnings, "missingIdat") \in {0, 1}
        /\ WarningsOfKind(result.warnings, "missingIend") = 1
               <=> (~HasType(result.chunks, IEND) /\ ~Lt(index, BufLen(bytes)))
        /\ ~Lt(index, BufLen(bytes)) <=> ~CutShort(result.warnings)
        /\ WarningsOfKind(result.warnings, "missingIdat") = 1
               <=> ~HasType(result.chunks, IDAT)

ListShown == pc \in {"rendered", "shown"} /\ result.kind = "ok"

\* the payload of the k-th chunk readPngChunks returned
Payload(k) == viewBytes(bytes, result.chunks[k].data)

\* the five pairings of the PNG standard, as <<colour type, bit depth>>
ValidPairings ==
    ({0} \X {1, 2, 4, 8, 16}) \cup ({2} \X {8, 16}) \cup ({3} \X {1, 2, 4, 8})
        \cup ({4} \X {8, 16}) \cup ({6} \X {8, 16})

ZeroDimension(d) == SubSeq(d, 1, 4) = <<0, 0, 0, 0>> \/ SubSeq(d, 5, 8) = <<0, 0, 0, 0>>

HeaderIsWellFormed(d) ==
    /\ Len(d) = 13
    /\ ~ZeroDimension(d)
    /\ <<d[10], d[9]>> \in ValidPairings
    /\ d[11] = 0
    /\ d[12] = 0
    /\ d[13] \in {0, 1}

\* C12: in the v3 list the summary of an IHDR chunk is not an error exactly
\* when its payload has 13 bytes, non-zero width and height, a valid pairing
\* of bit depth and colour type, compression 0, filter 0 and interlace 0 or
\* 1; a recorded 13-byte header of width or height 0 is summarized as the
\* error "Zero width or height".
C12_HeaderSummarySucceedsIffWellFormed ==
    (variant = "v3" /\ ListShown) =>
        \A k \in DOMAIN chunkResultsContainer :
            chunkResultsContainer[k].type = IHDR =>
                /\ ~chunkResultsContainer[k].summary.error <=> HeaderIsWellFormed(Payload(k))
                /\ (Len(Payload(k)) = 13 /\ ZeroDimension(Payload(k))) =>
                       /\ chunkResultsContainer[k].summary.error
                       /\ chunkResultsContainer[k].summary.text = "Zero width or height"

\* the handler's object holds what readPngChunks returned
SameChunks == parseResult.chunks = result.chunks

SameWarnings == parseResult.warnings = result.warnings

\* the header chunk the context is read from could not be read
ContextFailed ==
    /\ findIhdr(result.chunks) # 0
    /\ IF variant = "v2" THEN Len(Payload(findIhdr(result.chunks))) # 13
       ELSE \/ Len(Payload(findIhdr(result.chunks))) # 13
            \/ <<Payload(findIhdr(result.chunks))[10], Payload(findIhdr(result.chunks))[9]>>
                   \notin ValidPairings

\* one warning was pushed after the warnings readPngChunks returned
OneWarningMore ==
    /\ Len(parseResult.warnings) = Len(result.warnings) + 1
    /\ SubSeq(parseResult.warnings, 1, Len(result.warnings)) = result.warnings
    /\ parseResult.warnings[Len(parseResult.warnings)].kind
           \in {"Failed to parse IHDR data for context.", "Failed to parse IHDR: "}

\* no step after the context was derived touches the object
LaterStepsKeepTheResult ==
    (pc \in {"context", "rendered", "shown"}) => parseResult' = parseResult

\* C14 (as stated): after readPngChunks has returned, the chunk list and the
\* warnings list of its ParseResult are never changed by the analysis.
C14_ParseResultIsNeverChanged ==
    /\ [](parseResult # NoResult => SameChunks /\ SameWarnings)
    /\ [][LaterStepsKeepTheResult]_vars

\* C14 (amended): the chunk list is never changed; the warnings list is
\* changed once at most, when the header chunk cannot be read for context:
\* then one warning is pushed at its end, before the chunks are rendered.
C14_OnlyTheContextWarningIsAdded ==
    /\ [](parseResult # NoResult =>
              /\ SameChunks
              /\ IF ContextFailed THEN OneWarningMore ELSE SameWarnings)
    /\ [][LaterStepsKeepTheResult]_vars

\* an analysis that pushed its warning after warnings of the parse, and went
\* on to the message
C14_Witness ==
    /\ pc = "shown"
    /\ result.kind = "ok"
    /\ Len(result.warnings) > 0
    /\ OneWarningMore
    /\ SameChunks

\* onload's frame on a page where nothing was analysed before
FreshFrame ==
    [pc |-> "start", index |-> N(0), chunks |-> <<>>, warnings |-> <<>>,
     foundIhdr |-> FALSE, foundIdat |-> FALSE, foundIend |-> FALSE,
     crcTable |-> Null, result |-> NoResult, oob |-> FALSE,
     parseResult |-> NoResult, ihdrInfo |-> NoInfo,
     chunkResultsContainer |-> <<>>, messageElem |-> NoMessage]

PayloadsOf(count) == [k \in 1..count |-> Payload(k)]

\* the v3 list of the file whose k-th chunk carries payload p instead
WouldShow(k, p) ==
    LET ps == [PayloadsOf(5) EXCEPT ![k] = p]
    IN  onload(FreshFrame, AnalysisFile(ps[1], ps[2], ps[3], ps[5]), "v3").chunkResultsContainer

\* payloads to put in the place of the k-th chunk's: a good header, either
\* tRNS payload (which one is right depends on the header), a good text, an
\* empty end chunk
Candidates(k) ==
    IF k = 1 THEN {IhdrPayload}
    ELSE IF k = 2 THEN TrnsPayloads
    ELSE IF k = 3 THEN {TextOf(Author, JaneDoe)}
    ELSE {<<>>}

\* the lists of the files in which the k-th chunk is well-formed instead
RepairedLists(k) ==
    {shown \in {WouldShow(k, p) : p \in Candidates(k)} : ~shown[k].summary.error}

\* the analysis reached its end with a box for every chunk and no error message
NotAborted ==
    /\ Len(chunkResultsContainer) = Len(result.chunks)
    /\ messageElem.kind = "status"

\* the boxes in the places js have the summaries they have in the list shown
SameSummaries(shown, js) ==
    \A j \in js : chunkResultsContainer[j].summary = shown[j].summary

NeedsContext(j) ==
    /\ chunkResultsContainer[j].type = tRNS
    /\ chunkResultsContainer[j].summary.text
           = "Transparency Data: (n bytes, requires IHDR context)"

\* v3 has analysed a file of five chunks to the end of the handler
FiveShown == variant = "v3" /\ pc = "shown" /\ result.kind = "ok" /\ Len(result.chunks) = 5

\* the chunks whose payload summarizeChunk rejects
Failing ==
    {k \in DOMAIN result.chunks : summarizeChunk(result.chunks[k], Payload(k), ihdrInfo).thrown}

\* what summarizeChunk threw is the summary of the chunk's own box
ShowsItsError(k) ==
    /\ chunkResultsContainer[k].summary.error
    /\ ~chunkResultsContainer[k].summary.thrown
    /\ chunkResultsContainer[k].summary.text
           = summarizeChunk(result.chunks[k], Payload(k), ihdrInfo).text

\* C15 (as stated): a chunk whose summary fails gets the error as its own
\* summary, every other chunk has the summary it has when the failing chunk is
\* well-formed, the warnings are those readPngChunks returned, and the
\* analysis goes on to its end.
C15_SummaryFailureIsChunkLocal ==
    (FiveShown /\ Failing # {}) =>
        /\ NotAborted
        /\ SameWarnings
        /\ \A k \in Failing : ShowsItsError(k)
        /\ \A k \in Failing :
               RepairedLists(k) # {} =>
                   \E shown \in RepairedLists(k) : SameSummaries(shown, (1..5) \ {k})

\* C15 (amended): the same, except when the failing chunk is the header the
\* context is read from: then one warning is pushed, a tRNS chunk is
\* summarized as needing the header context, and the chunks that do not use
\* the context have the summary they have with a well-formed header.
C15_SummaryFailureIsChunkLocalButForTheHeader ==
    (FiveShown /\ Failing # {}) =>
        /\ NotAborted
        /\ IF 1 \in Failing THEN OneWarningMore ELSE SameWarnings
        /\ 1 \in Failing => NeedsContext(2)
        /\ \A k \in Failing : ShowsItsError(k)
        /\ \A k \in Failing :
               RepairedLists(k) # {} =>
                   \E shown \in RepairedLists(k) :
                       SameSummaries(shown, (1..5) \ (IF k = 1 THEN {1, 2} ELSE {k}))

\* a file whose tEXt chunk alone fails: its box says so, and the analysis
\* ended with its status message
C15_Witness ==
    /\ FiveShown
    /\ Failing = {3}
    /\ chunkResultsContainer[3].summary.text = "Invalid tEXt keyword"
    /\ messageElem.kind = "status"

StartsWith(str, prefix) == Len(str) >= Len(prefix) /\ SubSeq(str, 1, Len(prefix)) = prefix

Entities == {<<Amp, 38>>, <<LtEntity, 60>>, <<GtEntity, 62>>, <<Quot, 34>>, <<Apos, 39>>}

\* the text a browser makes of markup without tags: the character references
\* are replaced by their characters
RECURSIVE htmlText(_)
htmlText(str) ==
    IF str = <<>> THEN <<>>
    ELSE IF \E e \in Entities : StartsWith(str, e[1])
    THEN LET e == CHOOSE e \in Entities : StartsWith(str, e[1])
         IN  <<e[2]>> \o htmlText(SubSeq(str, Len(e[1]) + 1, Len(str)))
    ELSE <<Head(str)>> \o htmlText(Tail(str))

\* the box shows keyword and text as v3 should
ShowsText(box, keyword, text) ==
    /\ ~box.summary.error
    /\ box.summary.text = "Textual Data: Key="
    /\ htmlText(box.summary.html) = <<34>> \o keyword \o <<34>>
    /\ box.text.kind = "pre"
    /\ ~box.text.markup
    /\ box.text.chars = text

\* C18: for a tEXt chunk whose payload is a keyword of 1 to 79 characters, a
\* zero byte and a text, the v3 summary names the keyword and the v3 text
\* column holds the text, one code point per byte; v2's extractTextContent
\* returns the text, one code point per byte.
C18_TextIsShownVerbatim ==
    (pc \in {"rendered", "shown"} /\ result.kind = "ok") =>
        \A kt \in GoodTexts :
            \A k \in DOMAIN chunkResultsContainer :
                LET box == chunkResultsContainer[k]
                    at == CHOOSE j \in DOMAIN result.chunks :
                              result.chunks[j].offset = box.offset
                IN  (box.type = tEXt /\ Payload(at) = TextOf(kt[1], kt[2])) =>
                        /\ box.text.extracted = String(kt[2])
                        /\ variant = "v3" => ShowsText(box, kt[1], kt[2])

\* the v3 list shows keyword "Author" and text "Jane Doe"
C18_Witness ==
    /\ variant = "v3"
    /\ pc = "shown"
    /\ \E k \in DOMAIN chunkResultsContainer :
           /\ chunkResultsContainer[k].type = tEXt
           /\ ShowsText(chunkResultsContainer[k], Author, JaneDoe)
           /\ Len(chunkResultsContainer[k].text.chars) = 8

(***************************************************************************)
(* C16: the page                                                           *)
(***************************************************************************)
\* C16: on the v3 page, whenever the message shows the error of a failed
\* parse, the results container holds no box.
C16_FatalErrorShowsNoListing ==
    (variant = "v3" /\ messageElem.kind = "error"
         /\ messageElem.text # "File reading error") =>
        chunkResultsContainer = <<>>

(***************************************************************************)
(* C21: data after the end chunk                                           *)
(***************************************************************************)
\* a chunk that v1 and v3 record is under the cursor: it fits in the buffer
\* and its tag is four letters
RecordableAtCursor ==
    /\ variant \in {"v1", "v3"}
    /\ InLoop
    /\ ~DoesNotFit
    /\ isFourLetters(TypeAtCursor)

\* the pass over an IEND chunk records it, warns of trailing data exactly when
\* the chunk ends before the end of the buffer, and leaves the cursor behind
\* the chunk with the scan still on
IendIsPassed ==
    (RecordableAtCursor /\ TypeAtCursor = IEND) =>
        LET after == Add(Add(index, N(12)), LengthAtCursor)
            trailing == Lt(after, BufLen(bytes))
        IN  /\ pc' = "scan"
            /\ index' = after
            /\ chunks' = Append(chunks, chunks'[Len(chunks')])
            /\ chunks'[Len(chunks')].type = IEND
            /\ chunks'[Len(chunks')].offset = index
            /\ WarningsOfKind(warnings', "dataAfterIend")
                   = WarningsOfKind(warnings, "dataAfterIend") + (IF trailing THEN 1 ELSE 0)
            /\ trailing => warnings'[Len(warnings')] = Warn("dataAfterIend", index)

\* with an IEND chunk recorded, the bytes under the cursor are still read as
\* a chunk and recorded
ScanGoesOnAfterIend ==
    (RecordableAtCursor /\ HasType(chunks, IEND)) =>
        /\ Len(chunks') = Len(chunks) + 1
        /\ chunks'[Len(chunks')].offset = index
        /\ chunks'[Len(chunks')].type = TypeAtCursor

\* one trailing-data warning for each IEND record that ends before the end of
\* the buffer, and no other
TrailingDataIsWarned ==
    variant \in {"v1", "v3"} =>
        /\ \A k \in 1..Len(chunks) :
               WarningsAt(warnings, "dataAfterIend", chunks[k].offset)
                   = IF chunks[k].type = IEND /\ Lt(recordEnd(chunks[k]), BufLen(bytes))
                     THEN 1 ELSE 0
        /\ WarningsOfKind(warnings, "dataAfterIend")
               = Cardinality({k \in 1..Len(chunks) :
                                  /\ chunks[k].type = IEND
                                  /\ Lt(recordEnd(chunks[k]), BufLen(bytes))})

\* C21: for every recorded IEND chunk that ends before the end of the buffer
\* v1 and v3 add one trailing-data warning and go on scanning the remaining
\* bytes as further chunks; for an IEND chunk that ends exactly at the end of
\* the buffer they add none.
C21_TrailingDataIsWarnedAndScanned ==
    []TrailingDataIsWarned /\ [][IendIsPassed /\ ScanGoesOnAfterIend]_vars

\* v3 has returned an IEND record with its trailing-data warning and a record
\* of the bytes after it
C21_Witness ==
    /\ variant = "v3"
    /\ Returned
    /\ \E k \in 1..(Len(result.chunks) - 1) :
           /\ result.chunks[k].type = IEND
           /\ HasWarning(result.warnings, "dataAfterIend", result.chunks[k].offset)
           /\ result.chunks[k + 1].offset = recordEnd(result.chunks[k])

(***************************************************************************)
(* C22: where the header context comes from                                *)
(***************************************************************************)
\* the handler has derived its context from a parse that returned
ContextDerived == pc \in {"context", "rendered", "shown"} /\ result.kind = "ok"

\* C22: the context handed to the summaries is derived from the first chunk
\* of the list, and only when that chunk is IHDR: it is that chunk's width,
\* height, bit depth and colour type or, when the chunk cannot be parsed,
\* absent; when the first chunk is not IHDR it is absent, also when an IHDR
\* chunk comes later in the list.
C22_ContextIsFromTheFirstChunk ==
    (variant \in Analysed /\ ContextDerived /\ Len(result.chunks) > 0) =>
        IF result.chunks[1].type = IHDR
        THEN ihdrInfo \in {NoInfo, IhdrFields(Payload(1))}
        ELSE ihdrInfo = NoInfo

(***************************************************************************)
(* C23: payload lengths that depend on the colour type                     *)
(***************************************************************************)
\* the payload lengths the chunk type allows for the colour type
AllowedLengths(type, colorType) ==
    IF type = tRNS
    THEN (IF colorType = 0 THEN {2} ELSE IF colorType = 2 THEN {6}
          ELSE IF colorType = 3 THEN 1..256 ELSE {})
    ELSE IF type = sBIT
    THEN (IF colorType = 0 THEN {1} ELSE IF colorType \in {2, 3} THEN {3}
          ELSE IF colorType = 4 THEN {2} ELSE {4})
    ELSE (IF colorType \in {0, 4} THEN {2} ELSE IF colorType \in {2, 6} THEN {6} ELSE {1})

NeedsHeader == {tRNS, sBIT, bKGD}

RawLengthOnly ==
    { "Transparency Data: (n bytes, requires IHDR context)",
      "Significant Bits: (n bytes, requires IHDR context)",
      "Background Color: (n bytes, requires IHDR context)" }

\* v3 has built the boxes of the file's chunks
BoxesShown ==
    /\ variant = "v3"
    /\ pc \in {"rendered", "shown"}
    /\ result.kind = "ok"
    /\ Len(chunkResultsContainer) = Len(result.chunks)

\* C23: with a header context, v3's summary of a tRNS, sBIT or bKGD chunk is
\* an error exactly when the payload length is not one the colour type
\* allows (tRNS: 2 for colour type 0, 6 for 2, 1..256 for 3, none for 4 and
\* 6; sBIT: 1, 3, 3, 2, 4 for 0, 2, 3, 4, 6; bKGD: 2 for 0 and 4, 6 for 2 and
\* 6, 1 for 3); without a context it is never an error and reports the
\* payload length alone.
C23_LengthDependsOnColourType ==
    BoxesShown =>
        \A k \in DOMAIN chunkResultsContainer :
            chunkResultsContainer[k].type \in NeedsHeader =>
                IF ihdrInfo.known
                THEN chunkResultsContainer[k].summary.error
                         <=> Len(Payload(k)) \notin AllowedLengths(result.chunks[k].type,
                                                                  ihdrInfo.colorType)
                ELSE /\ ~chunkResultsContainer[k].summary.error
                     /\ chunkResultsContainer[k].summary.text \in RawLengthOnly
                     /\ chunkResultsContainer[k].summary.numbers = <<N(Len(Payload(k)))>>

\* a palette image with 256 alpha entries, summarized without error
C23_Witness ==
    /\ BoxesShown
    /\ ihdrInfo.known
    /\ ihdrInfo.colorType = 3
    /\ Len(chunkResultsContainer) >= 2
    /\ chunkResultsContainer[2].type = tRNS
    /\ Len(Payload(2)) = 256
    /\ ~chunkResultsContainer[2].summary.error
    /\ chunkResultsContainer[2].summary.numbers = <<N(256)>>

TextTypes == {tEXt, zTXt, iTXt}

\* the printable characters of Latin-1
Printable == (32..126) \cup (161..255)

\* the bytes before the first zero byte are a keyword: 1 to 79 printable ones
KeywordIsValid(d) ==
    LET nul == indexOf(d, 0, 0)
    IN  /\ nul \in 1..MaxKeyword
        /\ \A j \in 1..nul : d[j] \in Printable

\* C24: v3's summary of a tEXt, zTXt or iTXt chunk is an error whenever the
\* keyword is unterminated, empty, longer than 79 bytes or holds a byte that
\* is not printable.
C24_KeywordIsPrintable ==
    BoxesShown =>
        \A k \in DOMAIN chunkResultsContainer :
            (chunkResultsContainer[k].type \in TextTypes /\ ~KeywordIsValid(Payload(k)))
                => chunkResultsContainer[k].summary.error

\* v2 or v3 has built the boxes of the file's chunks (v2 builds none for IDAT)
AllBoxesShown == variant \in Analysed /\ ListShown

\* the payload of the chunk a box was built for
BoxPayload(box) ==
    LET c == CHOOSE k \in DOMAIN result.chunks : result.chunks[k].offset = box.offset
    IN  Payload(c)

\* the payload, after a valid keyword and its terminator, holds a compression
\* flag 0 or 1, a compression method that is 0 when the flag is 1, a zero
\* byte at or after the byte following the method and a further zero byte
\* after that one, and the bytes between the two are UTF-8
ItxtIsWellFormed(d) ==
    LET nul0 == indexOf(d, 0, 0)
    IN  /\ Len(d) >= nul0 + 3
        /\ d[nul0 + 2] \in {0, 1}
        /\ d[nul0 + 2] = 1 => d[nul0 + 3] = 0
        /\ \E a \in (nul0 + 3)..(Len(d) - 1) :
               /\ d[a + 1] = 0
               /\ \A before \in (nul0 + 3)..(a - 1) : d[before + 1] # 0
               /\ \E b \in (a + 1)..(Len(d) - 1) :
                      /\ d[b + 1] = 0
                      /\ \A between \in (a + 1)..(b - 1) : d[between + 1] # 0
                      /\ ~decodeUtf8(SubSeq(d, a + 2, b)).bad

\* the bytes after the terminator of the translated keyword
ItxtBody(d) ==
    LET nul0 == indexOf(d, 0, 0)
        zeros == {j \in (nul0 + 3)..(Len(d) - 1) : d[j + 1] = 0}
        second == CHOOSE b \in zeros : Cardinality({a \in zeros : a < b}) = 1
    IN  SubSeq(d, second + 2, Len(d))

\* the second column of the box is text taken from the file
BodyExposed(box) == box.text.kind = "pre" /\ box.text.note = ""

\* C25: for an iTXt chunk with a valid keyword, v3's summary is an error
\* unless the compression flag is 0 or 1, the method is 0 when the flag is 1,
\* and the language tag and the translated keyword have their terminating
\* zero bytes; every offset the summary reads is inside the payload; and the
\* list (v2 and v3) shows text from the chunk only when the flag is 0, in v3
\* the decoded bytes after the translated keyword's terminator.
C25_ItxtGrammar ==
    AllBoxesShown =>
        \A k \in DOMAIN chunkResultsContainer :
            LET box == chunkResultsContainer[k]
                d == BoxPayload(box)
            IN  (box.type = iTXt /\ KeywordIsValid(d)) =>
                    /\ variant = "v3" => (~box.summary.error <=> ItxtIsWellFormed(d))
                    /\ itxtReads(box, d) \subseteq 0..(Len(d) - 1)
                    /\ BodyExposed(box) =>
                           /\ Len(d) >= indexOf(d, 0, 0) + 3
                           /\ d[indexOf(d, 0, 0) + 2] = 0
                    /\ (variant = "v3" /\ BodyExposed(box)) =>
                           box.text.chars = decodeUtf8(ItxtBody(d)).out

\* an uncompressed iTXt chunk whose text, the bytes C3 A9 26, is shown by v3
\* as the two characters U+00E9 and &
C25_Witness ==
    /\ AllBoxesShown
    /\ variant = "v3"
    /\ Len(chunkResultsContainer) >= 2
    /\ chunkResultsContainer[2].type = iTXt
    /\ ~chunkResultsContainer[2].summary.error
    /\ BodyExposed(chunkResultsContainer[2])
    /\ chunkResultsContainer[2].text.chars = <<233, 38>>

\* the copies of the scan loop that bound the skip of a malformed type tag
Bounded == {"v1", "v3"}

\* a pass of the loop that does not stop the scan, over a recorded chunk or
\* over a skipped one
ScanGoesOn == pc = "scan" /\ pc' = "scan" /\ variant \in Bounded

CursorAdvances == Le(Add(index, N(12)), index') /\ Le(index', BufLen(bytes))

\* C26: in v1 and v3, every pass of the scan loop that does not stop the scan
\* moves the cursor forward by at least 12 and not beyond the end of the
\* buffer, and the call always comes to return or throw.
C26_ScanTerminates ==
    /\ [][ScanGoesOn => CursorAdvances]_vars
    /\ (variant \in Bounded) => <>Finished

\* v3 has returned after a scan with a skipped chunk and two recorded ones
C26_Witness ==
    /\ variant = "v3"
    /\ pc = "done"
    /\ Len(chunks) = 2
    /\ \E k \in DOMAIN warnings : warnings[k].kind = "badType"
    /\ ~ \E k \in DOMAIN warnings : warnings[k].kind = "cannotSkip"

Conformant(cs) ==
    /\ TilesTheBuffer(cs)
    /\ cs[1].type = IHDR
    /\ \A k \in 2..Len(cs) : cs[k].type # IHDR
    /\ \E k \in 1..Len(cs) : cs[k].type = IDAT
    /\ cs[Len(cs)].type = IEND
    /\ \A k \in 1..(Len(cs) - 1) : cs[k].type # IEND
    /\ \A k \in 1..Len(cs) : cs[k].crcOk /\ Lt(cs[k].length, LargeLength)

ReturnedQuietly ==
    /\ variant \in Bounded
    /\ pc = "done"
    /\ result.kind = "ok"
    /\ result.warnings = <<>>

\* C27: when v1 or v3 returns a list without warnings, the chunks tile the
\* buffer from offset 8 to its end, the first and only the first is IHDR,
\* there is an IDAT, the last and only the last is IEND, every chunk's
\* checksum flag is set and every length is below 2^31.
C27_NoWarningsMeansConformant == ReturnedQuietly => Conformant(result.chunks)

\* v3 returns IHDR, IDAT and an IEND chunk without a warning
C27_Witness == ReturnedQuietly /\ variant = "v3" /\ Len(result.chunks) = 3

\* the buffer is a well-formed PNG file and cs are its chunks: they tile the
\* buffer after the signature, every type is four letters, every stored
\* checksum is the standard CRC-32 of type and payload, every length is below
\* 2^31, IHDR is first, there is an IDAT, and an empty IEND is last
WellFormed(cs) ==
    /\ TilesTheBuffer(cs)
    /\ \A k \in 1..Len(cs) :
           /\ isFourLetters(cs[k].type)
           /\ cs[k].crc = StandardCrc(cs[k])
           /\ Lt(cs[k].length, LargeLength)
    /\ cs[1].type = IHDR
    /\ \E k \in 1..Len(cs) : cs[k].type = IDAT
    /\ cs[Len(cs)].type = IEND
    /\ cs[Len(cs)].length = N(0)

\* C28: for a well-formed PNG file v3 returns a list without warnings in
\* which every chunk's checksum flag is set, and the page says
\* "File parsed successfully.".
C28_WellFormedParsesCleanly ==
    (variant = "v3" /\ pc = "shown" /\ Returned /\ WellFormed(result.chunks)) =>
        /\ result.warnings = <<>>
        /\ \A k \in 1..Len(result.chunks) : result.chunks[k].crcOk
        /\ messageElem = Message("status", "File parsed successfully.")

\* a smallest well-formed PNG file: the signature, a header chunk (width 1,
\* height 1, bit depth 8, grayscale), an empty IDAT chunk and an empty IEND
\* chunk, each with its standard CRC-32 (3A7E9B55, 35AF061E, AE426082)
SmallestFile ==
    PlainBuf(PNG_SIGNATURE \o GoodChunk(IHDR, IhdrPayload) \o GoodChunk(IDAT, <<>>)
                 \o GoodChunk(IEND, <<>>))

\* C29: the strict copy accepts a well-formed PNG file: for the smallest one
\* it returns the list of its three chunks and does not throw.
C29_StrictAcceptsWellFormed ==
    (variant = "strict" /\ Finished /\ bytes = SmallestFile) =>
        /\ Returned
        /\ Len(result.chunks) = 3

\* what the page shows after onload has run for the file alone, from the page
\* as analyzeFile leaves it
Alone(file) ==
    onload(Entered([Frame EXCEPT !.chunkResultsContainer = <<>>,
                                 !.messageElem = Message("status", "Reading file...")]),
           file, variant)

\* v3: the load that leaves no reader loading, after a request that chose a
\* file
LastLoad == variant = "v3" /\ OnLoad /\ readers' = <<>> /\ fileElem # NoFile

\* C30: when the last of v3's pending reads has loaded, the list and the
\* message on the page are those of the analysis requested last, the file
\* chosen on the page, in whatever order the reads have loaded.
C30_LatestRequestWins ==
    [][LastLoad =>
           \E alone \in {Alone(fileElem)} :
               /\ chunkResultsContainer' = alone.chunkResultsContainer
               /\ messageElem' = alone.messageElem]_vars

====
